---- MODULE Spec2Model ----
(***************************************************************************)
(* A model of pysapweb's rfp module: the page objects that drive SAPweb's  *)
(* Request for Payment pages through a WebDriver, and the create workflow  *)
(* built on them.                                                          *)
(*                                                                         *)
(* Text is a sequence of tokens (<<"Display", "RFP">>), so that substring  *)
(* tests, strip() and concatenation are computed and not assumed.  The     *)
(* browser is one record: what the remote UI currently renders.  A page    *)
(* method is an operator from the browser (and the page object) to the set *)
(* of its possible outcomes: the browser afterwards, the driver calls that *)
(* changed it, the exception raised (or "none") and the object returned.   *)
(***************************************************************************)
EXTENDS Integers, Sequences, FiniteSets, TLC

VARIABLES browser, log, calls, pc, page, exc, args, locals, i, r, rfp_number, nextId, last

vars == <<browser, log, calls, pc, page, exc, args, locals, i, r, rfp_number, nextId, last>>

(***************************************************************************)
(* Bounds of the model.                                                    *)
(***************************************************************************)
MaxResults == 2
MaxItems == 2
MaxReceipts == 2
MaxObjects == 6
MaxCells == 7

(***************************************************************************)
(* Text helpers.                                                           *)
(***************************************************************************)
\* Python's `pat in text` on strings
Contains(text, pat) ==
    \E k \in 1..(Len(text) - Len(pat) + 1) : SubSeq(text, k, k + Len(pat) - 1) = pat

RECURSIVE LStrip(_)
LStrip(s) == IF s # <<>> /\ Head(s) = " " THEN LStrip(Tail(s)) ELSE s

RECURSIVE RStrip(_)
RStrip(s) == IF s # <<>> /\ s[Len(s)] = " " THEN RStrip(SubSeq(s, 1, Len(s) - 1)) ELSE s

\* Python's str.strip()
Strip(s) == RStrip(LStrip(s))

IsPrefix(p, s) == Len(p) <= Len(s) /\ SubSeq(s, 1, Len(p)) = p

Range(s) == {s[k] : k \in DOMAIN s}

(***************************************************************************)
(* Exceptions and page objects.                                            *)
(***************************************************************************)
NoSuchElementException == "NoSuchElementException"
FailedTransitionError == "FailedTransitionError"
AssertionError == "AssertionError"
IndexError == "IndexError"
AttributeError == "AttributeError"

\* Python's None where a page object is expected
NonePage == [cls |-> "None", id |-> 0, index |-> 0]

\* One state-changing driver call
Op(op, loc, arg) == [op |-> op, loc |-> loc, arg |-> arg]
Get(url) == Op("get", url, <<>>)
Click(loc) == Op("click", loc, <<>>)
Clear(loc) == Op("clear", loc, <<>>)
SendKeys(loc, keys) == Op("send_keys", loc, keys)

\* The outcome of a method call
Out(b, ops, e, ret) == [b |-> b, ops |-> ops, exc |-> e, ret |-> ret]
Returns(b, ops, ret) == Out(b, ops, "none", ret)
Raises(b, ops, e) == Out(b, ops, e, NonePage)

(***************************************************************************)
(* The remote UI, as the page objects see it through the driver.           *)
(***************************************************************************)
InboxUrl == "InboxEntry.action"
ReimbursementUrl == "SelectPayeeReimbursementEntry.action"
PaymentUrl == "SelectPayeePaymentEntry.action"
SearchUrl == "SearchEntry.action"

\* A browser that has loaded nothing
BlankDom ==
    [kind |-> "Blank", payment |-> FALSE, mit |-> FALSE, title |-> <<>>,
     msgError |-> <<>>, jqError |-> <<>>,
     text |-> <<>>, sel |-> <<>>, radio |-> <<>>, check |-> <<>>, rows |-> 0,
     upload |-> "absent", file |-> <<>>, buttons |-> <<>>,
     results |-> <<>>, hits |-> 0, data |-> <<>>,
     items |-> <<>>, history |-> <<>>]

\* The RFPs the user's inbox lists, and the one that shows a 'Clone' button
RfpNumber(k) == ToString(1000 + k)
InboxRfps == <<RfpNumber(1), RfpNumber(2)>>
Cloneable == {RfpNumber(1)}
\* The one whose row has a deletion checkbox (the others show 'n/a')
Deletable == {RfpNumber(2)}
MarkBox(rfp) == "input[type=checkbox]:" \o rfp
\* The number SAPweb gives the RFP that 'Save & Continue' creates
NewRfp == "2001"

\* The options of a select dropdown: underlying value and rendered text
Options(fragment) ==
    CASE fragment \in {"#country1", "#country2"} ->
           << [value |-> <<"US">>, text |-> <<"United", "States">>],
              [value |-> <<"FR">>, text |-> <<" ", "France", " ">>] >>
      [] fragment \in {"#region1", "#region2"} ->
           << [value |-> <<"">>, text |-> <<>>],
              [value |-> <<"MA">>, text |-> <<"Massachusetts">>] >>
      [] fragment = "#coCode" ->
           << [value |-> <<"CUR">>, text |-> <<"MIT">>],
              [value |-> <<"LL">>, text |-> <<"Lincoln", "Lab">>] >>
      [] fragment = "#citizenship" ->
           << [value |-> <<"">>, text |-> <<>>],
              [value |-> <<"FR">>, text |-> <<"France">>] >>
      [] OTHER -> <<>>

\* 'State/Region' is rendered for payees in the U.S. or Canada only
HasRegion(countryValue) == countryValue \in {<<"US">>, <<"CA">>}

\* The locators of the five text boxes of line item li (zero-indexed)
LineField(name, li) == name \o "-" \o ToString(li)
LineFields(li) ==
    {LineField(n, li) : n \in {"#serviceDate", "#glAccount", "#costObject",
                               "#amount", "#description"}}

Idx(loc, index) == loc \o ToString(index)

EmptyBoxes(locs) == [l \in locs |-> <<>>]

PayeeTitle(payment) ==
    IF payment THEN <<"Select", "Payee", "Payment">>
    ELSE <<"Select", "Payee", "Reimbursement">>
RequestTitle(payment) ==
    IF payment THEN <<"Create", "RFP", "Payment">>
    ELSE <<"Create", "RFP", "Reimbursement">>
EditTitle(payment) ==
    IF payment THEN <<"Change", "RFP", "Payment">>
    ELSE <<"Change", "RFP", "Reimbursement">>
DisplayTitle(payment) ==
    IF payment THEN <<"Display", "RFP", "Payment">>
    ELSE <<"Display", "RFP", "Reimbursement">>

InboxDom ==
    [BlankDom EXCEPT !.kind = "Inbox", !.title = <<"RFP", "Inbox">>,
                     !.results = InboxRfps,
                     !.check = [l \in {MarkBox(rfp) : rfp \in Deletable} |-> FALSE]]

SearchForPayeeDom(payment) ==
    [BlankDom EXCEPT !.kind = "SearchForPayee", !.payment = payment,
                     !.title = PayeeTitle(payment),
                     !.text = EmptyBoxes({"#payeeName"}),
                     !.radio = "payeeType" :> "MIT"]

\* The request form.  The address group (index 1 for a payment, 2 for a
\* reimbursement) is rendered for Non-MIT payees only.
RequestRfpDom(payment, mit) ==
    LET index == IF payment THEN 1 ELSE 2
        boxes == {"#rfpName", "#messageForAP"} \cup LineFields(0)
        addr  == {Idx("#address", index), Idx("#city", index), Idx("#zip", index)}
    IN  [BlankDom EXCEPT
            !.kind = "RequestRfp", !.payment = payment, !.mit = mit,
            !.title = RequestTitle(payment),
            !.text = EmptyBoxes(IF mit THEN boxes ELSE boxes \cup addr),
            !.sel = IF mit THEN "#coCode" :> 1
                    ELSE ("#coCode" :> 1) @@ (Idx("#country", index) :> 1)
                         @@ (Idx("#region", index) :> 1),
            \* mailing instructions and tax questions: Non-MIT payees only
            !.radio = IF mit THEN <<>>
                      ELSE ("rfpDocument.mailToMit" :> "")
                           @@ ("rfpDocument.payee.usCitizenType" :> ""),
            !.check = IF mit THEN <<>> ELSE "#holdCheck" :> FALSE,
            !.rows = 1,
            !.upload = "hidden"]

\* The editable RFP that a saved request form becomes
ViewAndEditDom(b, number) ==
    [b EXCEPT !.kind = "ViewAndEdit", !.title = EditTitle(b.payment),
              !.msgError = <<>>, !.jqError = <<>>,
              !.upload = "hidden", !.buttons = <<>>, !.file = <<>>,
              !.results = <<>>,
              !.data = ("RFP Number" :> <<number>>) @@ ("Payee" :> <<"Ann">>)]

\* An editable RFP opened from the inbox
InboxRfpDom(number) ==
    ViewAndEditDom(RequestRfpDom(FALSE, TRUE), number)

\* What SAPweb holds of an RFP: the number of its line items, the cells of
\* its history table (three to a row, unless a row is short) and whether the
\* sections that only some RFPs have are shown
ItemCount(number) ==
    CASE number = RfpNumber(2) -> MaxItems
      [] number = RfpNumber(3) -> 0
      [] OTHER -> 1
HistoryCount(number) ==
    CASE number = RfpNumber(1) -> 3
      [] number = RfpNumber(2) -> 6
      [] number = RfpNumber(3) -> 4
      [] number = RfpNumber(4) -> 5
      [] OTHER -> 0
LineItemRow(k) ==
    [cells |-> << <<"date", ToString(k)>>, <<"gl", ToString(k)>>,
                  <<"co", ToString(k)>>, <<"amt", ToString(k)>> >>,
     explanation |-> <<"why", ToString(k)>>]
RequiredLabels ==
    {"RFP Number", "Payee", "Company Code", "Name of RFP", "Type of RFP", "Payment Method"}
OptionalLabels ==
    {"Inbox", "Mailing Instructions", "Name", "Phone", "Address", "City", "State/Region",
     "Postal Code", "Country", "Tax Entity Type", "SSN/TIN", "Note to Central Office"}
\* The optional rows an RFP shows: all of them, a few, or none
ShownLabels(number) ==
    CASE number = RfpNumber(1) -> OptionalLabels
      [] number = RfpNumber(5) -> {"Inbox", "Country", "Phone"}
      [] OTHER -> {}
DataList(number) ==
    [l \in RequiredLabels \cup ShownLabels(number) |->
        CASE l = "RFP Number" -> <<number>>
          [] l = "Payee" -> <<"Ann">>
          [] OTHER -> <<l, number>>]

ViewOnlyDom(payment, number) ==
    [BlankDom EXCEPT !.kind = "ViewOnly", !.payment = payment,
                     !.title = DisplayTitle(payment),
                     !.upload = "hidden",
                     !.data = DataList(number),
                     !.items = [k \in 1..ItemCount(number) |-> LineItemRow(k - 1)],
                     !.history = [k \in 1..HistoryCount(number) |-> <<"cell", ToString(k - 1)>>]]

SendToDom(b) ==
    [BlankDom EXCEPT !.kind = "SendTo", !.payment = b.payment,
                     !.title = <<"Send", "RFP">>,
                     !.text = EmptyBoxes({"#recipientName", "#recipientNote"}),
                     !.data = b.data]

SearchDom ==
    [BlankDom EXCEPT !.kind = "Search", !.title = <<"Search", "for", "RFP">>,
                     !.text = EmptyBoxes({"#rfpNumber"}),
                     !.sel = "#coCode" :> 1,
                     !.check = ("#parked" :> TRUE) @@ ("#posted" :> TRUE)
                               @@ ("#deleted" :> FALSE)]

\* A page none of the page objects expects (an expired session, say)
UnexpectedDom ==
    [BlankDom EXCEPT !.kind = "Unexpected", !.title = <<"Session", "Expired">>]

\* The error regions SAPweb may render: '.portlet-msg-error' and 'label.jqerror'
ErrorChoices ==
    { [m |-> <<"Error">>, j |-> <<>>], [m |-> <<>>, j |-> <<"Required">>] }

\* The number of the RFP on display, if any
ShownRfp(b) ==
    IF "RFP Number" \in DOMAIN b.data THEN b.data["RFP Number"][1] ELSE NewRfp

\* A request that SAPweb rejects comes back as the same page with errors
Rejected(b) ==
    { [b EXCEPT !.msgError = e.m, !.jqError = e.j] : e \in ErrorChoices }

\* A click that asks for another page: the page, a rejection or a surprise
Navigation(b, target) == {target} \cup Rejected(b) \cup {UnexpectedDom}

\* The lists a search may come back with
ResultLists == { [k \in 1..n |-> <<"Result", ToString(k)>>] : n \in 0..MaxResults }

\* The button sets the upload dialog may offer
ButtonSets == { <<"Attach", "Cancel">>, <<"Cancel">> }

\* Locators of elements that are found by position or by the text they hold
RowLink(rfp) == "a:" \o rfp
CloneButton(rfp) == "button.clone:" \o rfp
ResultLink(k) == "result:" \o ToString(k)
DialogButton(label) == ".ui-dialog button:" \o label

\* The clickable elements the page on display holds
Elements(b) ==
    CASE b.kind = "Inbox" ->
           {RowLink(rfp) : rfp \in Range(b.results)}
           \cup {CloneButton(rfp) : rfp \in Range(b.results) \cap Cloneable}
      [] b.kind = "SearchForPayee" ->
           {"#searchButton"} \cup {ResultLink(k - 1) : k \in DOMAIN b.results}
      [] b.kind = "RequestRfp" ->
           {".saveAction", "#addLine"}
           \cup (IF b.mit THEN {".changePayeeAction"} ELSE {})
      [] b.kind = "ViewAndEdit" ->
           {".saveAction", "#addLine", ".attachReceipts", ".sendToAction"}
           \cup {DialogButton(b.buttons[k]) : k \in DOMAIN b.buttons}
      [] b.kind = "ViewOnly" ->
           {".attachReceipts"}
           \cup {DialogButton(b.buttons[k]) : k \in DOMAIN b.buttons}
      [] b.kind = "SendTo" ->
           {"a[href='ReturnToRfp.action']", ".searchForRecipient", ".sendToAction"}
      [] b.kind = "Search" ->
           {"#searchButton"} \cup {ResultLink(k - 1) : k \in DOMAIN b.results}
      [] OTHER -> {}

\* The upload dialog opens over the page (or fails to); what the page shows stays
Overlay(b) ==
    {[b EXCEPT !.upload = "shown", !.buttons = bs] : bs \in ButtonSets}
    \cup {[b EXCEPT !.upload = "hidden", !.buttons = <<>>]}

\* What SAPweb may render after a click on element loc of the page on display
Respond(b, loc) ==
    CASE b.kind = "Inbox" /\ \E rfp \in Range(b.results) : loc = RowLink(rfp) ->
           UNION {Navigation(b, InboxRfpDom(rfp)) :
                     rfp \in {x \in Range(b.results) : loc = RowLink(x)}}
      [] b.kind = "Inbox" /\ \E rfp \in Range(b.results) : loc = CloneButton(rfp) ->
           Navigation(b, InboxRfpDom(NewRfp))
      [] b.kind = "SearchForPayee" /\ loc = "#searchButton" ->
           {[b EXCEPT !.results = rl] : rl \in ResultLists}
      [] b.kind = "SearchForPayee" /\ loc # "#searchButton" ->
           Navigation(b, RequestRfpDom(b.payment, b.radio["payeeType"] = "MIT"))
      [] b.kind = "RequestRfp" /\ loc = ".changePayeeAction" ->
           Navigation(b, SearchForPayeeDom(b.payment))
      [] b.kind \in {"RequestRfp", "ViewAndEdit"} /\ loc = "#addLine" ->
           {[b EXCEPT !.rows = @ + 1,
                      !.text = EmptyBoxes(LineFields(b.rows)) @@ @]}
      [] b.kind = "RequestRfp" /\ loc = ".saveAction" ->
           Overlay(ViewAndEditDom(b, NewRfp)) \cup Rejected(b) \cup {UnexpectedDom}
      [] b.kind = "ViewAndEdit" /\ loc = ".saveAction" ->
           {ViewAndEditDom(b, ShownRfp(b))} \cup Rejected(b)
      [] b.kind \in {"ViewAndEdit", "ViewOnly"} /\ loc = ".attachReceipts" ->
           Overlay(b)
      [] b.kind = "ViewAndEdit" /\ loc = ".sendToAction" ->
           Navigation(b, SendToDom(b))
      [] b.kind \in {"ViewAndEdit", "ViewOnly"} /\ loc = DialogButton("Cancel") ->
           {[b EXCEPT !.upload = "hidden", !.buttons = <<>>]}
      [] b.kind = "ViewAndEdit" /\ loc = DialogButton("Attach") ->
           LET shown == {ViewAndEditDom(b, ShownRfp(b)),
                         ViewOnlyDom(b.payment, ShownRfp(b))}
           IN  shown \cup {[t EXCEPT !.msgError = <<"Upload", "failed">>] : t \in shown}
      [] b.kind = "ViewOnly" /\ loc = DialogButton("Attach") ->
           LET shown == ViewOnlyDom(b.payment, ShownRfp(b))
           IN  {shown, [shown EXCEPT !.msgError = <<"Upload", "failed">>]}
      [] b.kind = "SendTo" /\ loc = ".searchForRecipient" ->
           {[b EXCEPT !.results = rl] : rl \in ResultLists}
      [] b.kind = "SendTo" /\ loc = ".sendToAction" ->
           Navigation(b, ViewOnlyDom(b.payment, ShownRfp(b)))
      [] b.kind = "SendTo" /\ loc = "a[href='ReturnToRfp.action']" ->
           Navigation(b, ViewAndEditDom(RequestRfpDom(b.payment, TRUE), ShownRfp(b)))
      [] b.kind = "Search" /\ loc = "#searchButton" ->
           \* a search that finds a single RFP displays it at once
           {[ViewOnlyDom(FALSE, IF Len(b.text["#rfpNumber"]) = 1
                                THEN b.text["#rfpNumber"][1] ELSE RfpNumber(1))
               EXCEPT !.hits = 1]}
           \cup {[b EXCEPT !.hits = n, !.results = [k \in 1..n |-> RfpNumber(k)],
                           !.msgError = <<>>, !.jqError = <<>>] :
                    n \in (0..MaxResults) \ {1}}
           \cup Rejected(b)
      [] b.kind = "Search" /\ loc # "#searchButton" ->
           UNION {Navigation(b, ViewOnlyDom(FALSE, b.results[k])) :
                     k \in {x \in DOMAIN b.results : loc = ResultLink(x - 1)}}
      [] OTHER -> {b}

(***************************************************************************)
(* BasePage: the helpers every page object shares.                         *)
(***************************************************************************)
NewPage(cls, id, index) == [cls |-> cls, id |-> id, index |-> index]

\* FindAndClick that clicks again after the page has answered
FindAndClick_twice(b, loc) ==
    IF loc \notin Elements(b) THEN {Raises(b, <<>>, NoSuchElementException)}
    ELSE {Returns(b2, <<Click(loc), Click(loc)>>, NonePage) : b2 \in Respond(b, loc)}

\* find_element_by_css_selector(loc).click(), and what SAPweb answers
FindAndClick(b, loc) ==
    IF loc \notin Elements(b) THEN {Raises(b, <<>>, NoSuchElementException)}
    ELSE {Returns(b2, <<Click(loc)>>, NonePage) : b2 \in Respond(b, loc)}

\* Run step F on the browser each outcome left, unless the outcome raised
AndThen(outs, F(_)) ==
    UNION { IF o.exc = "none"
            THEN {[n EXCEPT !.ops = o.ops \o n.ops] : n \in F(o.b)}
            ELSE {o} : o \in outs }

errors(b) == b.msgError \o b.jqError

_pre_transition(b) ==
    IF errors(b) # <<>> THEN {Raises(b, <<>>, FailedTransitionError)}
    ELSE {Returns(b, <<>>, NonePage)}

\* browser.get(url): the entry pages load as themselves
Load(url) ==
    CASE url = InboxUrl -> InboxDom
      [] url = ReimbursementUrl -> SearchForPayeeDom(FALSE)
      [] url = PaymentUrl -> SearchForPayeeDom(TRUE)
      [] url = SearchUrl -> SearchDom
      [] OTHER -> UnexpectedDom
browser_get(b, url) == {Returns(Load(url), <<Get(url)>>, NonePage)}

\* __init__ that navigates whether or not the class has an entry URL
BasePage_init_always(b, entry_url) == browser_get(b, entry_url)

BasePage_init(b, entry_url) ==
    IF entry_url # "" THEN browser_get(b, entry_url)
    ELSE {Returns(b, <<>>, NonePage)}

\* _radio(group_name, val) with val given: click the button of that value
RadioValues(group) ==
    CASE group = "payeeType" -> {"MIT", "NONMIT"}
      [] group = "rfpDocument.mailToMit" -> {"true", "false"}
      [] group = "rfpDocument.payee.usCitizenType" -> {"Y", "N", "C"}
      [] OTHER -> {}
RadioLoc(group, val) == "input[name='" \o group \o "'][value='" \o val \o "']"
_radio_set(b, group_name, val) ==
    IF group_name \in DOMAIN b.radio /\ val \in RadioValues(group_name)
    THEN {Returns([b EXCEPT !.radio[group_name] = val],
                  <<Click(RadioLoc(group_name, val))>>, NonePage)}
    ELSE {Raises(b, <<>>, NoSuchElementException)}

\* _textbox(selector, val) with val given: clear, then type
_textbox_set(b, selector, val) ==
    IF selector \notin DOMAIN b.text THEN {Raises(b, <<>>, NoSuchElementException)}
    ELSE {Returns([b EXCEPT !.text[selector] = <<>> \o val],
                  <<Clear(selector), SendKeys(selector, val)>>, NonePage)}

\* _select(fragment): the stripped text of the checked option
_select_get(b, fragment) == Strip(Options(fragment)[b.sel[fragment]].text)

\* What typing keys into a focused dropdown does: the first option whose text
\* starts with what was typed becomes the checked one.  A new country
\* re-renders the address group: its boxes are emptied and 'State/Region' is
\* shown only where the country has regions.
TypeIntoSelect(b, fragment, keys) ==
    LET opts  == Options(fragment)
        typed == SelectSeq(keys, LAMBDA t : t # "\t")
        match == {k \in DOMAIN opts : typed # <<>> /\ IsPrefix(typed, Strip(opts[k].text))}
        new   == IF match = {} THEN b.sel[fragment]
                 ELSE CHOOSE k \in match : \A m \in match : k <= m
        index == IF fragment = "#country1" THEN 1 ELSE 2
        boxes == {Idx("#address", index), Idx("#city", index), Idx("#zip", index)}
        region == Idx("#region", index)
        others == [f \in (DOMAIN b.sel) \ {region} |->
                      IF f = fragment THEN new ELSE b.sel[f]]
    IN  IF fragment \in {"#country1", "#country2"} /\ new # b.sel[fragment]
        THEN [b EXCEPT !.sel = IF HasRegion(opts[new].value)
                                THEN (region :> 1) @@ others ELSE others,
                       !.text = [l \in DOMAIN b.text |->
                                    IF l \in boxes THEN <<>> ELSE b.text[l]]]
        ELSE [b EXCEPT !.sel[fragment] = new]

\* _select_set without the conversion of a value into its text
_select_set_unconverted(b, fragment, val) ==
    LET keys == val \o <<"\t">>
        loc == "select" \o fragment
    IN  IF fragment \notin DOMAIN b.sel
        THEN {Raises(b, <<>>, NoSuchElementException)}
        ELSE LET b2 == TypeIntoSelect(b, fragment, keys)
             IN  IF _select_get(b2, fragment) = val
                 THEN {Returns(b2, <<SendKeys(loc, keys)>>, NonePage)}
                 ELSE {Raises(b2, <<SendKeys(loc, keys)>>, AssertionError)}

\* _select(fragment, val) with val given
_select_set(b, fragment, val) ==
    LET opts == Options(fragment)
        byValue == {k \in DOMAIN opts : opts[k].value = val}
        \* Convert values (i.e. 'US') into text (i.e., 'United St...')
        text == IF fragment \in DOMAIN b.sel /\ byValue # {}
                THEN Strip(opts[CHOOSE k \in byValue : \A m \in byValue : k <= m].text)
                ELSE val
        keys == text \o <<"\t">>
        loc == "select" \o fragment
    IN  IF fragment \notin DOMAIN b.sel
        THEN {Raises(b, <<>>, NoSuchElementException)}
        ELSE LET b2 == TypeIntoSelect(b, fragment, keys)
             IN  IF _select_get(b2, fragment) = text
                 THEN {Returns(b2, <<SendKeys(loc, keys)>>, NonePage)}
                 ELSE {Raises(b2, <<SendKeys(loc, keys)>>, AssertionError)}

\* _datalist(label): the data cell beside the label
_datalist(b, label) ==
    IF label \in DOMAIN b.data THEN [exc |-> "none", val |-> b.data[label]]
    ELSE [exc |-> NoSuchElementException, val |-> <<>>]

(***************************************************************************)
(* The page classes.  A method that constructs a page object takes the     *)
(* identity id the new object gets.                                        *)
(***************************************************************************)
AddressIndex(b) == IF Contains(b.title, <<"Payment">>) THEN 1 ELSE 2

RequestRfpPage(b, id) ==
    AndThen(BasePage_init(b, ""),
            LAMBDA b2 : {Returns(b2, <<>>, NewPage("RequestRfpPage", id, AddressIndex(b2)))})

ViewAndEditPage(b, id) ==
    AndThen(BasePage_init(b, ""),
            LAMBDA b2 : {Returns(b2, <<>>, NewPage("ViewAndEditPage", id, AddressIndex(b2)))})

ViewOnlyPage(b, id) ==
    AndThen(BasePage_init(b, ""),
            LAMBDA b2 : {Returns(b2, <<>>, NewPage("ViewOnlyPage", id, 0))})

SearchForPayeePage(b, id) ==
    AndThen(BasePage_init(b, ""),
            LAMBDA b2 : {Returns(b2, <<>>, NewPage("SearchForPayeePage", id, 0))})

SendToPage(b, id) ==
    AndThen(BasePage_init(b, ""),
            LAMBDA b2 : {Returns(b2, <<>>, NewPage("SendToPage", id, 0))})

\* The overlay is no page load: the visible upload control is the evidence
AttachReceiptPage(b, id) ==
    AndThen(BasePage_init(b, ""),
            LAMBDA b2 :
              IF b2.upload = "absent" THEN {Raises(b2, <<>>, NoSuchElementException)}
              ELSE IF b2.upload # "shown"
                   THEN {Raises(b2, <<>>, FailedTransitionError)}
                   ELSE {Returns(b2, <<>>, NewPage("AttachReceiptPage", id, 0))})

InboxPage(b, id) ==
    AndThen(BasePage_init(b, InboxUrl),
            LAMBDA b2 : {Returns(b2, <<>>, NewPage("InboxPage", id, 0))})

SearchPage(b, id) ==
    AndThen(BasePage_init(b, SearchUrl),
            LAMBDA b2 : {Returns(b2, <<>>, NewPage("SearchPage", id, 0))})

CreateReimbursementPage(b, id) ==
    AndThen(browser_get(b, ReimbursementUrl), LAMBDA b2 : SearchForPayeePage(b2, id))

CreatePaymentPage(b, id) ==
    AndThen(browser_get(b, PaymentUrl), LAMBDA b2 : SearchForPayeePage(b2, id))

\* ---- InboxPage
InboxPage_select(b, rfp, id) ==
    AndThen(AndThen(FindAndClick(b, RowLink(rfp)), _pre_transition),
            LAMBDA b2 : ViewAndEditPage(b2, id))

InboxPage_clone(b, rfp, id) ==
    AndThen(FindAndClick(b, CloneButton(rfp)), LAMBDA b2 : ViewAndEditPage(b2, id))

\* ---- SearchForPayeePage
SearchForPayeePage_is_mit(b, val) ==
    _radio_set(b, "payeeType", IF val THEN "MIT" ELSE "NONMIT")

SearchForPayeePage_payee_name(b, val) == _textbox_set(b, "#payeeName", val)

SearchForPayeePage_search(b) == FindAndClick(b, "#searchButton")

\* results(): the stripped texts of the '#mit a' links
SearchForPayeePage_results(b) ==
    IF b.kind = "SearchForPayee" THEN [k \in DOMAIN b.results |-> Strip(b.results[k])]
    ELSE <<>>

\* results(index): click the link at that position
SearchForPayeePage_select(b, index, id) ==
    IF index + 1 \notin DOMAIN SearchForPayeePage_results(b)
    THEN {Raises(b, <<>>, IndexError)}
    ELSE AndThen(AndThen(FindAndClick(b, ResultLink(index)), _pre_transition),
                 LAMBDA b2 : RequestRfpPage(b2, id))

\* ---- RequestRfpPage
RequestRfpPage_change_payee(b, id) ==
    AndThen(AndThen(FindAndClick(b, ".changePayeeAction"), _pre_transition),
            LAMBDA b2 : SearchForPayeePage(b2, id))

RequestRfpPage_rfp_name(b, val) == _textbox_set(b, "#rfpName", val)
RequestRfpPage_country(b, self, val) == _select_set(b, Idx("#country", self.index), val)
RequestRfpPage_address(b, self, val) == _textbox_set(b, Idx("#address", self.index), val)
RequestRfpPage_city(b, self, val) == _textbox_set(b, Idx("#city", self.index), val)
RequestRfpPage_state(b, self, val) == _select_set(b, Idx("#region", self.index), val)
RequestRfpPage_postal_code(b, self, val) == _textbox_set(b, Idx("#zip", self.index), val)

RequestRfpPage_date_of_service(b, li, val) == _textbox_set(b, LineField("#serviceDate", li), val)
RequestRfpPage_gl_account(b, li, val) == _textbox_set(b, LineField("#glAccount", li), val)
RequestRfpPage_cost_object(b, li, val) == _textbox_set(b, LineField("#costObject", li), val)
RequestRfpPage_amount(b, li, val) == _textbox_set(b, LineField("#amount", li), val)
RequestRfpPage_explanation(b, li, val) == _textbox_set(b, LineField("#description", li), val)

RequestRfpPage_add_line(b) == FindAndClick(b, "#addLine")

RequestRfpPage_office_note(b, val) == _textbox_set(b, "#messageForAP", val)

RequestRfpPage_save(b, id) ==
    AndThen(AndThen(FindAndClick(b, ".saveAction"), _pre_transition),
            LAMBDA b2 : AttachReceiptPage(b2, id))

\* ---- ViewAndEditPage
\* rfp_number that reads the row above its own
ViewAndEditPage_rfp_number_payee(b) == _datalist(b, "Payee")

ViewAndEditPage_rfp_number(b) == _datalist(b, "RFP Number")

\* Do not perform checking because errors on this page will persist.
ViewAndEditPage_attach_receipt(b, id) ==
    AndThen(FindAndClick(b, ".attachReceipts"), LAMBDA b2 : AttachReceiptPage(b2, id))

ViewAndEditPage_save(b) == FindAndClick(b, ".saveAction")

\* send_to that looks for errors before it clicks
ViewAndEditPage_send_to_check_first(b, id) ==
    AndThen(AndThen(_pre_transition(b), LAMBDA b2 : FindAndClick(b2, ".sendToAction")),
            LAMBDA b3 : SendToPage(b3, id))

ViewAndEditPage_send_to(b, id) ==
    AndThen(AndThen(FindAndClick(b, ".sendToAction"), _pre_transition),
            LAMBDA b2 : SendToPage(b2, id))

\* ---- ViewOnlyPage
ViewOnlyPage_rfp_number(b) == _datalist(b, "RFP Number")

ViewOnlyPage_attach_receipt(b, id) ==
    AndThen(FindAndClick(b, ".attachReceipts"), LAMBDA b2 : AttachReceiptPage(b2, id))

\* ---- AttachReceiptPage
AttachReceiptPage_select_file(b, path) ==
    IF b.upload = "absent" THEN {Raises(b, <<>>, NoSuchElementException)}
    ELSE {Returns([b EXCEPT !.file = @ \o path], <<SendKeys("#upload", path)>>, NonePage)}

\* _overlay_button as its docstring has it: always a ViewAndEditPage
AttachReceiptPage__overlay_button_docstring(b, text, id) ==
    AndThen(FindAndClick(b, DialogButton(text)),
            LAMBDA b2 : ViewAndEditPage(b2, id))

AttachReceiptPage__overlay_button(b, text, id) ==
    AndThen(FindAndClick(b, DialogButton(text)),
            LAMBDA b2 : IF Contains(b2.title, <<"Display", "RFP">>)
                        THEN ViewOnlyPage(b2, id)
                        ELSE ViewAndEditPage(b2, id))

AttachReceiptPage_cancel(b, id) == AttachReceiptPage__overlay_button(b, "Cancel", id)
AttachReceiptPage_attach(b, id) == AttachReceiptPage__overlay_button(b, "Attach", id)

\* ---- SendToPage
SendToPage_return_to_rfp(b, id) ==
    AndThen(AndThen(FindAndClick(b, "a[href='ReturnToRfp.action']"), _pre_transition),
            LAMBDA b2 : ViewAndEditPage(b2, id))

SendToPage_recipient_name(b, val) == _textbox_set(b, "#recipientName", val)

\* search that hands a SendToPage object back
SendToPage_search_returning(b) ==
    AndThen(FindAndClick(b, ".searchForRecipient"),
            LAMBDA b2 : {Returns(b2, <<>>, NewPage("SendToPage", 1, 0))})

SendToPage_search(b) == FindAndClick(b, ".searchForRecipient")

SendToPage_results(b) ==
    IF b.kind = "SendTo" THEN [k \in DOMAIN b.results |-> Strip(b.results[k])]
    ELSE <<>>

SendToPage_note(b, val) == _textbox_set(b, "#recipientNote", val)

SendToPage_send(b, id) ==
    AndThen(AndThen(FindAndClick(b, ".sendToAction"), _pre_transition),
            LAMBDA b2 : ViewOnlyPage(b2, id))

\* ---- SearchPage
\* rfp_number that types the number a second time
SearchPage_rfp_number_twice(b, val) ==
    AndThen(_textbox_set(b, "#rfpNumber", val),
            LAMBDA b2 : _textbox_set(b2, "#rfpNumber", val))

SearchPage_rfp_number(b, val) == _textbox_set(b, "#rfpNumber", val)

\* SearchPage_search that hands back a new SearchPage object when it stays
SearchPage_search_fresh(b, self, id) ==
    AndThen(AndThen(FindAndClick(b, "#searchButton"), _pre_transition),
            LAMBDA b2 : IF Contains(b2.title, <<"Display", "RFP">>)
                        THEN ViewOnlyPage(b2, id)
                        ELSE {Returns(b2, <<>>, NewPage("SearchPage", id, 0))})

SearchPage_search(b, self, id) ==
    AndThen(AndThen(FindAndClick(b, "#searchButton"), _pre_transition),
            LAMBDA b2 : IF Contains(b2.title, <<"Display", "RFP">>)
                        THEN ViewOnlyPage(b2, id)
                        ELSE {Returns(b2, <<>>, self)})

SearchPage_results(b) ==
    IF b.kind = "Search" THEN [k \in DOMAIN b.results |-> <<b.results[k]>>]
    ELSE <<>>

SearchPage_select(b, index, id) ==
    IF index + 1 \notin DOMAIN SearchPage_results(b)
    THEN {Raises(b, <<>>, IndexError)}
    ELSE AndThen(AndThen(FindAndClick(b, ResultLink(index)), _pre_transition),
                 LAMBDA b2 : ViewOnlyPage(b2, id))

(***************************************************************************)
(* create(browser, name, payee, address, line_items, office_note,          *)
(*        receipts, send_to): one action per statement.                    *)
(***************************************************************************)
\* An optional argument: Python's None, or a tuple
None == [none |-> TRUE, val |-> <<>>]
Some(t) == [none |-> FALSE, val |-> t]
\* Python's truth value of an optional tuple
Truthy(x) == ~x.none /\ Len(x.val) > 0

Street == <<"77", "Mass", "Ave">>
Addresses ==
    { None, Some(<<>>),
      Some(<< Street, <<"Cambridge">>, <<"02139">> >>),
      Some(<< Street, <<"Paris">>, <<"75001">>, <<"FR">> >>),
      Some(<< Street, <<"Cambridge">>, <<"02139">>, <<"United", "States">> >>),
      Some(<< Street, <<"Cambridge">>, <<"MA">>, <<"02139">>, <<"US">> >>),
      Some(<< Street, <<"Paris">>, <<"IDF">>, <<"75001">>, <<"France">> >>),
      Some(<< Street, <<"Cambridge">>, <<"MA">>, <<"02139">>, <<"US">>, <<"extra">> >>) }

LineItem(k) ==
    << <<"date", ToString(k)>>, <<"gl", ToString(k)>>, <<"co", ToString(k)>>,
       <<"amount", ToString(k)>>, <<"why", ToString(k)>> >>
Receipt(k) == <<"receipt", ToString(k)>>

Arguments ==
    [ name : {<<"Trip">>},
      payee : {<<m, <<"Ann">>>> : m \in BOOLEAN},
      address : Addresses,
      line_items : {[k \in 1..n |-> LineItem(k)] : n \in 0..MaxItems},
      office_note : {<<"note">>},
      receipts : {[k \in 1..n |-> Receipt(k)] : n \in 0..MaxReceipts},
      send_to : {None, Some(<< <<"Bob">>, <<"please">> >>)} ]

\* One invocation of a page-object method: its name, the line item it
\* addresses (-1 where there is none) and the value passed
Call(method, li, arg) == [method |-> method, li |-> li, arg |-> arg]
NoArg == <<>>

NoCall == [call |-> Call("", -1, NoArg), self |-> NonePage, ops |-> <<>>,
           exc |-> "none", ret |-> NonePage]
Called(call, self, o) ==
    [call |-> call, self |-> self, ops |-> o.ops, exc |-> o.exc, ret |-> o.ret]

\* The statement at `from` calls a method and keeps no result
Do(from, call, outs, to) ==
    /\ pc = from
    /\ \E o \in outs :
         /\ browser' = o.b
         /\ log' = log \o o.ops
         /\ calls' = Append(calls, call)
         /\ exc' = o.exc
         /\ last' = Called(call, page, o)
         /\ pc' = IF o.exc = "none" THEN to ELSE "failed"
    /\ UNCHANGED <<page, nextId>>

\* The statement at `from` is page = <a call that returns a page object>
Assign(from, call, outs, to) ==
    /\ pc = from
    /\ \E o \in outs :
         /\ browser' = o.b
         /\ log' = log \o o.ops
         /\ calls' = Append(calls, call)
         /\ exc' = o.exc
         /\ last' = Called(call, page, o)
         /\ pc' = IF o.exc = "none" THEN to ELSE "failed"
         /\ page' = IF o.exc = "none" THEN o.ret ELSE page
         /\ nextId' = IF o.exc = "none" /\ o.ret.id = nextId THEN nextId + 1 ELSE nextId

\* A statement that calls nothing
Goto(from, to) ==
    /\ pc = from
    /\ pc' = to
    /\ UNCHANGED <<browser, log, calls, exc, page, nextId, last>>
Raise(from, e) ==
    /\ pc = from
    /\ pc' = "failed"
    /\ exc' = e
    /\ UNCHANGED <<browser, log, calls, page, nextId, last>>

\* page.<method>(...) on an object whose class does not define the method
NoAttribute(b) == {Raises(b, <<>>, AttributeError)}

\* create_unpack with a length test that lets longer tuples through
create_unpack_lenient(address) ==
    IF Len(address) >= 4
    THEN [exc |-> "none",
          locals |-> [n \in {"address_line", "city", "postal_code", "country"} |->
                        CASE n = "address_line" -> address[1] [] n = "city" -> address[2]
                          [] n = "postal_code" -> address[3] [] OTHER -> address[4]]]
    ELSE [exc |-> IndexError, locals |-> <<>>]

\* create_unpack that binds `state` from a 4-element address too
create_unpack_state4(address) ==
    IF Len(address) \in {4, 5}
    THEN [exc |-> "none",
          locals |-> [n \in {"address_line", "city", "state", "postal_code", "country"} |->
                        CASE n = "address_line" -> address[1] [] n = "city" -> address[2]
                          [] n = "state" -> address[3]
                          [] n = "postal_code" -> address[Len(address) - 1]
                          [] OTHER -> address[Len(address)]]]
    ELSE [exc |-> IndexError, locals |-> <<>>]

\* The unpacking of `address` (lines 62-68): the locals it binds, or the error
create_unpack(address) ==
    IF Len(address) = 5
    THEN [exc |-> "none",
          locals |-> [n \in {"address_line", "city", "state", "postal_code", "country"} |->
                        CASE n = "address_line" -> address[1] [] n = "city" -> address[2]
                          [] n = "state" -> address[3] [] n = "postal_code" -> address[4]
                          [] OTHER -> address[5]]]
    ELSE IF Len(address) = 4
    THEN [exc |-> "none",
          locals |-> [n \in {"address_line", "city", "postal_code", "country"} |->
                        CASE n = "address_line" -> address[1] [] n = "city" -> address[2]
                          [] n = "postal_code" -> address[3] [] OTHER -> address[4]]]
    ELSE [exc |-> IndexError, locals |-> <<>>]

\* create_state with an except clause that also swallows the locator failure
create_state_tolerant(b, self, bound) ==
    IF "state" \notin DOMAIN bound THEN {Returns(b, <<>>, NonePage)}
    ELSE { IF o.exc = NoSuchElementException THEN Returns(o.b, o.ops, NonePage) ELSE o :
              o \in RequestRfpPage_state(b, self, bound["state"]) }

\* try: page.state(state) / except NameError: pass (lines 73-76).  Reading the
\* unbound local raises the NameError before page.state is entered; nothing
\* that page.state itself raises is caught.
create_state(b, self, bound) ==
    IF "state" \notin DOMAIN bound THEN {Returns(b, <<>>, NonePage)}
    ELSE RequestRfpPage_state(b, self, bound["state"])

create_start ==
    /\ Assign("start", Call("CreateReimbursementPage", -1, NoArg),
          CreateReimbursementPage(browser, nextId),
          "is_mit")
    /\ UNCHANGED <<args, locals, i, r, rfp_number>>

create_is_mit ==
    /\ Do("is_mit", Call("is_mit", -1, <<ToString(args.payee[1])>>),
          SearchForPayeePage_is_mit(browser, args.payee[1]),
          "payee_name")
    /\ UNCHANGED <<args, locals, i, r, rfp_number>>

create_payee_name ==
    /\ Do("payee_name", Call("payee_name", -1, args.payee[2]),
          SearchForPayeePage_payee_name(browser, args.payee[2]),
          "search")
    /\ UNCHANGED <<args, locals, i, r, rfp_number>>

create_search ==
    /\ Do("search", Call("search", -1, NoArg),
          SearchForPayeePage_search(browser),
          "assert_results")
    /\ UNCHANGED <<args, locals, i, r, rfp_number>>

\* create_assert_results that only asks for some result (`>= 1`)
create_assert_results_some ==
    /\ IF Len(SearchForPayeePage_results(browser)) >= 1
       THEN Goto("assert_results", "select")
       ELSE Raise("assert_results", AssertionError)
    /\ UNCHANGED <<args, locals, i, r, rfp_number>>

\* assert len(page.results()) == 1
create_assert_results ==
    /\ IF Len(SearchForPayeePage_results(browser)) = 1
       THEN Goto("assert_results", "select")
       ELSE Raise("assert_results", AssertionError)
    /\ UNCHANGED <<args, locals, i, r, rfp_number>>

create_select ==
    /\ Assign("select", Call("results", -1, <<"0">>),
          SearchForPayeePage_select(browser, 0, nextId),
          "rfp_name")
    /\ UNCHANGED <<args, locals, i, r, rfp_number>>

create_rfp_name ==
    /\ Do("rfp_name", Call("rfp_name", -1, args.name),
          RequestRfpPage_rfp_name(browser, args.name),
          "address")
    /\ UNCHANGED <<args, locals, i, r, rfp_number>>

\* create_address with `if address is not None:` for `if address:`
create_address_not_none ==
    /\ pc = "address"
    /\ IF ~args.address.none
       THEN LET u == create_unpack(args.address.val)
            IN  /\ locals' = u.locals
                /\ exc' = u.exc
                /\ pc' = IF u.exc = "none" THEN "country" ELSE "failed"
       ELSE /\ pc' = "line_items"
            /\ UNCHANGED <<locals, exc>>
    /\ UNCHANGED <<browser, log, calls, page, nextId, last, args, i, r, rfp_number>>

\* create_address that goes straight to the address line, the country unset
create_address_skip_country ==
    /\ pc = "address"
    /\ IF Truthy(args.address)
       THEN LET u == create_unpack(args.address.val)
            IN  /\ locals' = u.locals
                /\ exc' = u.exc
                /\ pc' = IF u.exc = "none" THEN "address_line" ELSE "failed"
       ELSE /\ pc' = "line_items"
            /\ UNCHANGED <<locals, exc>>
    /\ UNCHANGED <<browser, log, calls, page, nextId, last, args, i, r, rfp_number>>

\* if address: unpack it by its length
create_address ==
    /\ pc = "address"
    /\ IF Truthy(args.address)
       THEN LET u == create_unpack(args.address.val)
            IN  /\ locals' = u.locals
                /\ exc' = u.exc
                /\ pc' = IF u.exc = "none" THEN "country" ELSE "failed"
       ELSE /\ pc' = "line_items"
            /\ UNCHANGED <<locals, exc>>
    /\ UNCHANGED <<browser, log, calls, page, nextId, last, args, i, r, rfp_number>>

create_country ==
    /\ Do("country", Call("country", -1, locals["country"]),
          RequestRfpPage_country(browser, page, locals["country"]),
          "address_line")
    /\ UNCHANGED <<args, locals, i, r, rfp_number>>

create_address_line ==
    /\ Do("address_line", Call("address", -1, locals["address_line"]),
          RequestRfpPage_address(browser, page, locals["address_line"]),
          "city")
    /\ UNCHANGED <<args, locals, i, r, rfp_number>>

create_city ==
    /\ Do("city", Call("city", -1, locals["city"]),
          RequestRfpPage_city(browser, page, locals["city"]),
          "state")
    /\ UNCHANGED <<args, locals, i, r, rfp_number>>

create_try_state ==
    /\ pc = "state"
    /\ \E o \in create_state(browser, page, locals) :
         /\ browser' = o.b
         /\ log' = log \o o.ops
         /\ exc' = o.exc
         /\ pc' = IF o.exc = "none" THEN "postal_code" ELSE "failed"
         /\ IF "state" \in DOMAIN locals
            THEN /\ calls' = Append(calls, Call("state", -1, locals["state"]))
                 /\ last' = Called(Call("state", -1, locals["state"]), page, o)
            ELSE UNCHANGED <<calls, last>>
    /\ UNCHANGED <<page, nextId, args, locals, i, r, rfp_number>>

create_postal_code ==
    /\ Do("postal_code", Call("postal_code", -1, locals["postal_code"]),
          RequestRfpPage_postal_code(browser, page, locals["postal_code"]),
          "line_items")
    /\ UNCHANGED <<args, locals, i, r, rfp_number>>

\* create_line_items that adds a line for the first item as well (`if i >= 0:`)
create_line_items_always_add ==
    /\ IF i < Len(args.line_items)
       THEN Goto("line_items", "add_line")
       ELSE Goto("line_items", "office_note")
    /\ UNCHANGED <<args, locals, i, r, rfp_number>>

\* for ... in line_items: the next item, or the statement after the loop
create_line_items ==
    /\ IF i < Len(args.line_items)
       THEN IF i > 0 THEN Goto("line_items", "add_line")
            ELSE Goto("line_items", "date_of_service")
       ELSE Goto("line_items", "office_note")
    /\ UNCHANGED <<args, locals, i, r, rfp_number>>

create_add_line ==
    /\ Do("add_line", Call("add_line", -1, NoArg),
          RequestRfpPage_add_line(browser),
          "date_of_service")
    /\ UNCHANGED <<args, locals, i, r, rfp_number>>

create_date_of_service ==
    /\ Do("date_of_service", Call("date_of_service", i, args.line_items[i + 1][1]),
          RequestRfpPage_date_of_service(browser, i, args.line_items[i + 1][1]),
          "gl_account")
    /\ UNCHANGED <<args, locals, i, r, rfp_number>>

create_gl_account ==
    /\ Do("gl_account", Call("gl_account", i, args.line_items[i + 1][2]),
          RequestRfpPage_gl_account(browser, i, args.line_items[i + 1][2]),
          "cost_object")
    /\ UNCHANGED <<args, locals, i, r, rfp_number>>

create_cost_object ==
    /\ Do("cost_object", Call("cost_object", i, args.line_items[i + 1][3]),
          RequestRfpPage_cost_object(browser, i, args.line_items[i + 1][3]),
          "amount")
    /\ UNCHANGED <<args, locals, i, r, rfp_number>>

create_amount ==
    /\ Do("amount", Call("amount", i, args.line_items[i + 1][4]),
          RequestRfpPage_amount(browser, i, args.line_items[i + 1][4]),
          "explanation")
    /\ UNCHANGED <<args, locals, i, r, rfp_number>>

\* the last statement of the loop body, and i += 1
create_explanation ==
    /\ Do("explanation", Call("explanation", i, args.line_items[i + 1][5]),
          RequestRfpPage_explanation(browser, i, args.line_items[i + 1][5]),
          "line_items")
    /\ i' = IF pc' = "failed" THEN i ELSE i + 1
    /\ UNCHANGED <<args, locals, r, rfp_number>>

\* create_office_note that goes on to the receipts without the save
create_office_note_unsaved ==
    /\ Do("office_note", Call("office_note", -1, args.office_note),
          RequestRfpPage_office_note(browser, args.office_note),
          "receipts")
    /\ UNCHANGED <<args, locals, i, r, rfp_number>>

create_office_note ==
    /\ Do("office_note", Call("office_note", -1, args.office_note),
          RequestRfpPage_office_note(browser, args.office_note),
          "save")
    /\ UNCHANGED <<args, locals, i, r, rfp_number>>

create_save ==
    /\ Assign("save", Call("save", -1, NoArg),
          RequestRfpPage_save(browser, nextId),
          "receipts")
    /\ UNCHANGED <<args, locals, i, r, rfp_number>>

\* create_receipts that never reopens the overlay
create_receipts_no_reopen ==
    /\ IF r < Len(args.receipts)
       THEN Goto("receipts", "select_file")
       ELSE IF Len(args.receipts) = 0 THEN Goto("receipts", "cancel")
            ELSE Goto("receipts", "rfp_number")
    /\ UNCHANGED <<args, locals, i, r, rfp_number>>

\* create_receipts with the test after the loop inverted (`if receipts:`)
create_receipts_inverted ==
    /\ IF r < Len(args.receipts)
       THEN IF page.cls = "ViewAndEditPage" THEN Goto("receipts", "attach_receipt")
            ELSE Goto("receipts", "select_file")
       ELSE IF Len(args.receipts) # 0 THEN Goto("receipts", "cancel")
            ELSE Goto("receipts", "rfp_number")
    /\ UNCHANGED <<args, locals, i, r, rfp_number>>

\* for receipt in receipts: the next receipt, or the statements after the loop
create_receipts ==
    /\ IF r < Len(args.receipts)
       THEN IF page.cls = "ViewAndEditPage" THEN Goto("receipts", "attach_receipt")
            ELSE Goto("receipts", "select_file")
       ELSE IF Len(args.receipts) = 0 THEN Goto("receipts", "cancel")
            ELSE Goto("receipts", "rfp_number")
    /\ UNCHANGED <<args, locals, i, r, rfp_number>>

create_attach_receipt ==
    /\ Assign("attach_receipt", Call("attach_receipt", -1, NoArg),
          ViewAndEditPage_attach_receipt(browser, nextId),
          "select_file")
    /\ UNCHANGED <<args, locals, i, r, rfp_number>>

create_select_file ==
    /\ Do("select_file", Call("select_file", -1, args.receipts[r + 1]),
          IF page.cls = "AttachReceiptPage"
          THEN AttachReceiptPage_select_file(browser, args.receipts[r + 1])
          ELSE NoAttribute(browser),
          "attach")
    /\ UNCHANGED <<args, locals, i, r, rfp_number>>

create_attach ==
    /\ Assign("attach", Call("attach", -1, NoArg),
          AttachReceiptPage_attach(browser, nextId),
          "receipts")
    /\ r' = IF pc' = "failed" THEN r ELSE r + 1
    /\ UNCHANGED <<args, locals, i, rfp_number>>

create_cancel ==
    /\ Assign("cancel", Call("cancel", -1, NoArg),
          AttachReceiptPage_cancel(browser, nextId),
          "rfp_number")
    /\ UNCHANGED <<args, locals, i, r, rfp_number>>

\* rfp_number = page.rfp_number(), then `if send_to:`
create_rfp_number ==
    /\ pc = "rfp_number"
    /\ LET got == CASE page.cls = "ViewAndEditPage" -> ViewAndEditPage_rfp_number(browser)
                    [] page.cls = "ViewOnlyPage" -> ViewOnlyPage_rfp_number(browser)
                    [] OTHER -> [exc |-> AttributeError, val |-> <<>>]
           call == Call("rfp_number", -1, NoArg)
       IN  /\ rfp_number' = got.val
           /\ exc' = got.exc
           /\ pc' = IF got.exc # "none" THEN "failed"
                    ELSE IF Truthy(args.send_to) THEN "send_to" ELSE "done"
           /\ calls' = Append(calls, call)
           /\ last' = Called(call, page, Out(browser, <<>>, got.exc, NonePage))
    /\ UNCHANGED <<browser, log, page, nextId, args, locals, i, r>>

create_send_to ==
    /\ Assign("send_to", Call("send_to", -1, NoArg),
          IF page.cls = "ViewAndEditPage" THEN ViewAndEditPage_send_to(browser, nextId)
          ELSE NoAttribute(browser),
          "recipient_name")
    /\ UNCHANGED <<args, locals, i, r, rfp_number>>

create_recipient_name ==
    /\ Do("recipient_name", Call("recipient_name", -1, args.send_to.val[1]),
          SendToPage_recipient_name(browser, args.send_to.val[1]),
          "send_search")
    /\ UNCHANGED <<args, locals, i, r, rfp_number>>

create_send_search ==
    /\ Do("send_search", Call("search", -1, NoArg),
          SendToPage_search(browser),
          "assert_recipients")
    /\ UNCHANGED <<args, locals, i, r, rfp_number>>

\* the recipient assertion that lets any non-empty list through
create_assert_recipients_some ==
    /\ IF Len(SendToPage_results(browser)) >= 1
       THEN Goto("assert_recipients", "note")
       ELSE Raise("assert_recipients", AssertionError)
    /\ UNCHANGED <<args, locals, i, r, rfp_number>>

\* assert len(page.results()) == 1
create_assert_recipients ==
    /\ IF Len(SendToPage_results(browser)) = 1
       THEN Goto("assert_recipients", "note")
       ELSE Raise("assert_recipients", AssertionError)
    /\ UNCHANGED <<args, locals, i, r, rfp_number>>

create_note ==
    /\ Do("note", Call("note", -1, args.send_to.val[2]),
          SendToPage_note(browser, args.send_to.val[2]),
          "send")
    /\ UNCHANGED <<args, locals, i, r, rfp_number>>

create_send ==
    /\ Assign("send", Call("send", -1, NoArg),
          SendToPage_send(browser, nextId),
          "done")
    /\ UNCHANGED <<args, locals, i, r, rfp_number>>

Init ==
    /\ browser = BlankDom
    /\ log = <<>>
    /\ calls = <<>>
    /\ pc = "start"
    /\ page = NonePage
    /\ exc = "none"
    /\ args \in Arguments
    /\ locals = <<>>
    /\ i = 0
    /\ r = 0
    /\ rfp_number = <<>>
    /\ nextId = 1
    /\ last = NoCall

Next ==
    \/ create_start
    \/ create_is_mit
    \/ create_payee_name
    \/ create_search
    \/ create_assert_results
    \/ create_select
    \/ create_rfp_name
    \/ create_address
    \/ create_country
    \/ create_address_line
    \/ create_city
    \/ create_try_state
    \/ create_postal_code
    \/ create_line_items
    \/ create_add_line
    \/ create_date_of_service
    \/ create_gl_account
    \/ create_cost_object
    \/ create_amount
    \/ create_explanation
    \/ create_office_note
    \/ create_save
    \/ create_receipts
    \/ create_attach_receipt
    \/ create_select_file
    \/ create_attach
    \/ create_cancel
    \/ create_rfp_number
    \/ create_send_to
    \/ create_recipient_name
    \/ create_send_search
    \/ create_assert_recipients
    \/ create_note
    \/ create_send

Spec == Init /\ [][Next]_vars

(***************************************************************************)
(* The page objects used directly: a caller that holds the page object it  *)
(* was last given and invokes any method of that object's class.           *)
(***************************************************************************)
\* The defaults of create's parameters
DefaultArgs ==
    [name |-> <<>>, payee |-> <<TRUE, <<>>>>, address |-> None, line_items |-> <<>>,
     office_note |-> <<>>, receipts |-> <<>>, send_to |-> None]

\* The RFP numbers and result positions a caller may ask for
Rfps == {RfpNumber(k) : k \in 1..3}
Indexes == 0..MaxResults

\* The caller invokes a method; a page object it returns becomes the current one
Invoke(call, outs) ==
    /\ pc = "pages"
    /\ nextId <= MaxObjects
    /\ \E o \in outs :
         /\ browser' = o.b
         /\ exc' = o.exc
         /\ last' = Called(call, page, o)
         /\ page' = IF o.exc = "none" /\ o.ret # NonePage THEN o.ret ELSE page
         /\ nextId' = IF o.exc = "none" /\ o.ret.id = nextId THEN nextId + 1 ELSE nextId
    /\ UNCHANGED <<log, calls, pc, args, locals, i, r, rfp_number>>

pages_InboxPage ==
    /\ Invoke(Call("InboxPage", -1, NoArg),
              InboxPage(browser, nextId))

pages_SearchPage ==
    /\ Invoke(Call("SearchPage", -1, NoArg),
              SearchPage(browser, nextId))

pages_CreateReimbursementPage ==
    /\ Invoke(Call("CreateReimbursementPage", -1, NoArg),
              CreateReimbursementPage(browser, nextId))

pages_CreatePaymentPage ==
    /\ Invoke(Call("CreatePaymentPage", -1, NoArg),
              CreatePaymentPage(browser, nextId))

pages_AttachReceiptPage ==
    /\ Invoke(Call("AttachReceiptPage", -1, NoArg),
              AttachReceiptPage(browser, nextId))

pages_Inbox_select ==
    /\ page.cls = "InboxPage"
    /\ \E rfp \in Rfps :
         Invoke(Call("InboxPage.select", -1, <<rfp>>),
                InboxPage_select(browser, rfp, nextId))

pages_Inbox_clone ==
    /\ page.cls = "InboxPage"
    /\ \E rfp \in Rfps :
         Invoke(Call("InboxPage.clone", -1, <<rfp>>),
                InboxPage_clone(browser, rfp, nextId))

pages_SearchForPayee_is_mit ==
    /\ page.cls = "SearchForPayeePage"
    /\ \E val \in BOOLEAN :
         Invoke(Call("SearchForPayeePage.is_mit", -1, <<ToString(val)>>),
                SearchForPayeePage_is_mit(browser, val))

pages_SearchForPayee_search ==
    /\ page.cls = "SearchForPayeePage"
    /\ Invoke(Call("SearchForPayeePage.search", -1, NoArg),
              SearchForPayeePage_search(browser))

pages_SearchForPayee_results ==
    /\ page.cls = "SearchForPayeePage"
    /\ \E index \in Indexes :
         Invoke(Call("SearchForPayeePage.results", -1, <<ToString(index)>>),
                SearchForPayeePage_select(browser, index, nextId))

pages_RequestRfp_change_payee ==
    /\ page.cls \in {"RequestRfpPage", "ViewAndEditPage"}
    /\ Invoke(Call("RequestRfpPage.change_payee", -1, NoArg),
              RequestRfpPage_change_payee(browser, nextId))

pages_RequestRfp_save ==
    /\ page.cls = "RequestRfpPage"
    /\ Invoke(Call("RequestRfpPage.save", -1, NoArg),
              RequestRfpPage_save(browser, nextId))

pages_ViewAndEdit_save ==
    /\ page.cls = "ViewAndEditPage"
    /\ Invoke(Call("ViewAndEditPage.save", -1, NoArg),
              ViewAndEditPage_save(browser))

pages_ViewAndEdit_attach_receipt ==
    /\ page.cls = "ViewAndEditPage"
    /\ Invoke(Call("ViewAndEditPage.attach_receipt", -1, NoArg),
              ViewAndEditPage_attach_receipt(browser, nextId))

pages_ViewAndEdit_send_to ==
    /\ page.cls = "ViewAndEditPage"
    /\ Invoke(Call("ViewAndEditPage.send_to", -1, NoArg),
              ViewAndEditPage_send_to(browser, nextId))

pages_ViewOnly_attach_receipt ==
    /\ page.cls = "ViewOnlyPage"
    /\ Invoke(Call("ViewOnlyPage.attach_receipt", -1, NoArg),
              ViewOnlyPage_attach_receipt(browser, nextId))

pages_AttachReceipt_cancel ==
    /\ page.cls = "AttachReceiptPage"
    /\ Invoke(Call("AttachReceiptPage.cancel", -1, NoArg),
              AttachReceiptPage_cancel(browser, nextId))

pages_AttachReceipt_attach ==
    /\ page.cls = "AttachReceiptPage"
    /\ Invoke(Call("AttachReceiptPage.attach", -1, NoArg),
              AttachReceiptPage_attach(browser, nextId))

pages_SendTo_search ==
    /\ page.cls = "SendToPage"
    /\ Invoke(Call("SendToPage.search", -1, NoArg),
              SendToPage_search(browser))

pages_SendTo_send ==
    /\ page.cls = "SendToPage"
    /\ Invoke(Call("SendToPage.send", -1, NoArg),
              SendToPage_send(browser, nextId))

pages_SendTo_return_to_rfp ==
    /\ page.cls = "SendToPage"
    /\ Invoke(Call("SendToPage.return_to_rfp", -1, NoArg),
              SendToPage_return_to_rfp(browser, nextId))

pages_Search_search ==
    /\ page.cls = "SearchPage"
    /\ Invoke(Call("SearchPage.search", -1, NoArg),
              SearchPage_search(browser, page, nextId))

pages_Search_results ==
    /\ page.cls = "SearchPage"
    /\ \E index \in Indexes :
         Invoke(Call("SearchPage.results", -1, <<ToString(index)>>),
                SearchPage_select(browser, index, nextId))

InitPages ==
    /\ browser = BlankDom
    /\ log = <<>>
    /\ calls = <<>>
    /\ pc = "pages"
    /\ page = NonePage
    /\ exc = "none"
    /\ args = DefaultArgs
    /\ locals = <<>>
    /\ i = 0
    /\ r = 0
    /\ rfp_number = <<>>
    /\ nextId = 1
    /\ last = NoCall

NextPages ==
    \/ pages_InboxPage
    \/ pages_SearchPage
    \/ pages_CreateReimbursementPage
    \/ pages_CreatePaymentPage
    \/ pages_AttachReceiptPage
    \/ pages_Inbox_select
    \/ pages_Inbox_clone
    \/ pages_SearchForPayee_is_mit
    \/ pages_SearchForPayee_search
    \/ pages_SearchForPayee_results
    \/ pages_RequestRfp_change_payee
    \/ pages_RequestRfp_save
    \/ pages_ViewAndEdit_save
    \/ pages_ViewAndEdit_attach_receipt
    \/ pages_ViewAndEdit_send_to
    \/ pages_ViewOnly_attach_receipt
    \/ pages_AttachReceipt_cancel
    \/ pages_AttachReceipt_attach
    \/ pages_SendTo_search
    \/ pages_SendTo_send
    \/ pages_SendTo_return_to_rfp
    \/ pages_Search_search
    \/ pages_Search_results

SpecPages == InitPages /\ [][NextPages]_vars

(***************************************************************************)
(* Fields: every field method reads with val=None and writes otherwise.    *)
(* A caller on a search-for-payee, request or search page reads and writes *)
(* the fields of the page object it holds.                                 *)
(***************************************************************************)
NameError == "NameError"

\* None where the values are d's kind (a string, a boolean)
NoneOf(d) == [none |-> TRUE, val |-> d]

\* What a getter returns: a value, not a page object
Value(v) == [cls |-> "value", id |-> 0, index |-> 0, val |-> v]

\* _radio(group_name): the value of the checked button, None if none is
_radio_get(b, group_name) ==
    IF group_name \in DOMAIN b.radio /\ b.radio[group_name] # ""
    THEN Some(b.radio[group_name]) ELSE NoneOf("")

\* 'Hold check for pickup' can be ticked only under 'Deliver check to MIT
\* address'; a click on a disabled checkbox changes nothing
Enabled(b, selector) ==
    selector = "#holdCheck" => _radio_get(b, "rfpDocument.mailToMit") = Some("true")

\* _checkbox that clicks without looking at the state first
_checkbox_always_click(b, selector, val) ==
    IF selector \notin DOMAIN b.check THEN {Raises(b, <<>>, NoSuchElementException)}
    ELSE IF val.none THEN {Returns(b, <<>>, Value(b.check[selector]))}
    ELSE LET b2  == IF Enabled(b, selector) THEN [b EXCEPT !.check[selector] = ~@] ELSE b
             ops == <<Click(selector)>>
         IN  IF b2.check[selector] = val.val
             THEN {Returns(b2, ops, NonePage)}
             ELSE {Raises(b2, ops, AssertionError)}

_checkbox(b, selector, val) ==
    IF selector \notin DOMAIN b.check THEN {Raises(b, <<>>, NoSuchElementException)}
    ELSE IF val.none THEN {Returns(b, <<>>, Value(b.check[selector]))}
    ELSE LET clicks == b.check[selector] # val.val
             b2  == IF clicks /\ Enabled(b, selector)
                    THEN [b EXCEPT !.check[selector] = ~@] ELSE b
             ops == IF clicks THEN <<Click(selector)>> ELSE <<>>
         IN  IF b2.check[selector] = val.val
             THEN {Returns(b2, ops, NonePage)}
             ELSE {Raises(b2, ops, AssertionError)}

_textbox(b, selector, val) ==
    IF selector \notin DOMAIN b.text THEN {Raises(b, <<>>, NoSuchElementException)}
    ELSE IF val.none THEN {Returns(b, <<>>, Value(b.text[selector]))}
    ELSE _textbox_set(b, selector, val.val)

_select(b, fragment, val) ==
    IF fragment \notin DOMAIN b.sel THEN {Raises(b, <<>>, NoSuchElementException)}
    ELSE IF val.none THEN {Returns(b, <<>>, Value(_select_get(b, fragment)))}
    ELSE _select_set(b, fragment, val.val)

\* ---- the field methods
\* InboxPage.mark_for_deletion: the checkbox of the RFP's row, read or set
mark_for_deletion(b, rfp, val) ==
    LET elem == MarkBox(rfp)
    IN  IF elem \notin DOMAIN b.check THEN {Raises(b, <<>>, NoSuchElementException)}
        ELSE IF val.none THEN {Returns(b, <<>>, Value(b.check[elem]))}
        ELSE LET clicks == b.check[elem] # val.val
                 b2  == IF clicks THEN [b EXCEPT !.check[elem] = ~@] ELSE b
                 ops == IF clicks THEN <<Click(elem)>> ELSE <<>>
             IN  IF b2.check[elem] = val.val
                 THEN {Returns(b2, ops, NonePage)}
                 ELSE {Raises(b2, ops, AssertionError)}

is_mit(b, val) ==
    IF val.none THEN {Returns(b, <<>>, Value(_radio_get(b, "payeeType") = Some("MIT")))}
    ELSE SearchForPayeePage_is_mit(b, val.val)

payee_name(b, val) == _textbox(b, "#payeeName", val)
rfp_name(b, val) == _textbox(b, "#rfpName", val)
\* country that takes the address group from the title now on display
country_by_title(b, self, val) == _select(b, Idx("#country", AddressIndex(b)), val)

country(b, self, val) == _select(b, Idx("#country", self.index), val)
field_address(b, self, val) == _textbox(b, Idx("#address", self.index), val)
field_city(b, self, val) == _textbox(b, Idx("#city", self.index), val)
field_postal_code(b, self, val) == _textbox(b, Idx("#zip", self.index), val)
state(b, self, val) == _select(b, Idx("#region", self.index), val)

\* What the form does when the answer to 'Is payee a US citizen or a
\* resident alien?' changes: it may clear 'Type of Visa' and 'Country of
\* Citizenship', where the form has them
CitizenTypeChanged(before, b) ==
    LET group == "rfpDocument.payee.usCitizenType"
        cleared == [b EXCEPT
                      !.text = [l \in DOMAIN b.text |->
                                   IF l = "#visaType" THEN <<>> ELSE b.text[l]],
                      !.sel = [f \in DOMAIN b.sel |->
                                  IF f = "#citizenship" THEN 1 ELSE b.sel[f]]]
    IN  IF group \in DOMAIN before.radio /\ b.radio[group] # before.radio[group]
        THEN {b, cleared} ELSE {b}

citizen_alien(b, val) ==
    IF val.none
    THEN {Returns(b, <<>>, Value(_radio_get(b, "rfpDocument.payee.usCitizenType")))}
    ELSE AndThen(_radio_set(b, "rfpDocument.payee.usCitizenType", val.val),
                 LAMBDA b2 : {Returns(c, <<>>, NonePage) : c \in CitizenTypeChanged(b, b2)})

visa(b, val) == _textbox(b, "#visaType", val)
citizenship(b, val) == _select(b, "#citizenship", val)
addressee(b, val) == _textbox(b, "#addressee", val)
building_room(b, val) == _textbox(b, "#bldg-rm", val)
\* phone with a text box of its own
phone_own_box(b, val) == _textbox(b, "#phone", val)

\* Technically, this is the same field as 'building_room', above.
phone(b, val) == _textbox(b, "#bldg-rm", val)

\* mail_check with the getter's comparison turned round
mail_check_swapped(b, val) ==
    IF val.none
    THEN {Returns(b, <<>>, Value(_radio_get(b, "rfpDocument.mailToMit") = Some("true")))}
    ELSE _radio_set(b, "rfpDocument.mailToMit", IF val.val THEN "false" ELSE "true")

mail_check(b, val) ==
    IF val.none
    THEN {Returns(b, <<>>, Value(_radio_get(b, "rfpDocument.mailToMit") = Some("false")))}
    ELSE _radio_set(b, "rfpDocument.mailToMit", IF val.val THEN "false" ELSE "true")

hold_check(b, val) == _checkbox(b, "#holdCheck", val)

\* SearchPage.rfp_number(val=None)
SearchPage_rfp_number_field(b, val) == _textbox(b, "#rfpNumber", val)

\* rfp_types binds Is_parked and then reads is_parked
rfp_types(b, parked, posted, deleted) ==
    LET three == AndThen(AndThen(_checkbox(b, "#parked", parked),
                                 LAMBDA b2 : _checkbox(b2, "#posted", posted)),
                         LAMBDA b3 : _checkbox(b3, "#deleted", deleted))
    IN  { IF o.exc = "none" THEN Raises(o.b, o.ops, NameError) ELSE o : o \in three }

\* The values a caller passes
Texts == { <<"a">>, <<"b", " ">> }
CountryKeys == { <<"US">>, <<"FR">>, <<"United", "States">>, <<"France">>, <<"United">> }
StateKeys == { <<"MA">>, <<"Massachusetts">> }
CitizenKeys == { "Y", "N" }
OptionalOf(values, d) == {NoneOf(d)} \cup {Some(v) : v \in values}

\* The caller invokes a field method.  Of the earlier invocations only the
\* one just before is kept, and only if it returned.
InvokeField(call, outs) ==
    /\ pc = "fields"
    /\ \E o \in outs :
         /\ browser' = o.b
         /\ exc' = o.exc
         /\ last' = Called(call, page, o)
    /\ calls' = IF last.exc = "none" /\ last.call.method # "" THEN <<last.call>> ELSE <<>>
    /\ UNCHANGED <<log, pc, page, args, locals, i, r, rfp_number, nextId>>

fields_is_mit ==
    /\ page.cls = "SearchForPayeePage"
    /\ \E val \in OptionalOf(BOOLEAN, FALSE) :
         InvokeField(Call("is_mit", -1, val), is_mit(browser, val))

fields_payee_name ==
    /\ page.cls = "SearchForPayeePage"
    /\ \E val \in OptionalOf(Texts, <<>>) :
         InvokeField(Call("payee_name", -1, val), payee_name(browser, val))

fields_rfp_name ==
    /\ page.cls = "RequestRfpPage"
    /\ \E val \in OptionalOf(Texts, <<>>) :
         InvokeField(Call("rfp_name", -1, val), rfp_name(browser, val))

fields_country ==
    /\ page.cls = "RequestRfpPage"
    /\ \E val \in OptionalOf(CountryKeys, <<>>) :
         InvokeField(Call("country", -1, val), country(browser, page, val))

fields_state ==
    /\ page.cls = "RequestRfpPage"
    /\ \E val \in OptionalOf(StateKeys, <<>>) :
         InvokeField(Call("state", -1, val), state(browser, page, val))

fields_citizen_alien ==
    /\ page.cls = "RequestRfpPage"
    /\ \E val \in OptionalOf(CitizenKeys, "") :
         InvokeField(Call("citizen_alien", -1, val), citizen_alien(browser, val))

fields_mail_check ==
    /\ page.cls = "RequestRfpPage"
    /\ \E val \in OptionalOf(BOOLEAN, FALSE) :
         InvokeField(Call("mail_check", -1, val), mail_check(browser, val))

fields_hold_check ==
    /\ page.cls = "RequestRfpPage"
    /\ \E val \in OptionalOf(BOOLEAN, FALSE) :
         InvokeField(Call("hold_check", -1, val), hold_check(browser, val))

fields_mark_for_deletion ==
    /\ page.cls = "InboxPage"
    /\ \E rfp \in Rfps, val \in OptionalOf(BOOLEAN, FALSE) :
         InvokeField(Call("mark_for_deletion", -1,
                          [none |-> val.none, val |-> val.val, rfp |-> rfp]),
                     mark_for_deletion(browser, rfp, val))

fields_rfp_number ==
    /\ page.cls = "SearchPage"
    /\ \E val \in OptionalOf(Texts, <<>>) :
         InvokeField(Call("rfp_number", -1, val), SearchPage_rfp_number_field(browser, val))

fields_rfp_types ==
    /\ page.cls = "SearchPage"
    /\ \E parked \in OptionalOf(BOOLEAN, FALSE), posted \in OptionalOf(BOOLEAN, FALSE),
          deleted \in OptionalOf(BOOLEAN, FALSE) :
         InvokeField(Call("rfp_types", -1, <<parked, posted, deleted>>),
                     rfp_types(browser, parked, posted, deleted))

\* The pages the caller may be on: the two entry forms for a payee, the
\* request form of a Non-MIT or MIT payee for either RFP type, the search page
FieldPages ==
    { [b |-> SearchForPayeeDom(payment), cls |-> "SearchForPayeePage"] : payment \in BOOLEAN }
    \cup { [b |-> RequestRfpDom(payment, FALSE), cls |-> "RequestRfpPage"] :
              payment \in BOOLEAN }
    \cup { [b |-> RequestRfpDom(FALSE, TRUE), cls |-> "RequestRfpPage"] }
    \cup { [b |-> SearchDom, cls |-> "SearchPage"] }
    \cup { [b |-> InboxDom, cls |-> "InboxPage"] }

InitFields ==
    /\ \E f \in FieldPages :
         /\ browser = f.b
         /\ page = NewPage(f.cls, 1, IF f.cls = "RequestRfpPage" THEN AddressIndex(f.b) ELSE 0)
    /\ log = <<>>
    /\ calls = <<>>
    /\ pc = "fields"
    /\ exc = "none"
    /\ args = DefaultArgs
    /\ locals = <<>>
    /\ i = 0
    /\ r = 0
    /\ rfp_number = <<>>
    /\ nextId = 2
    /\ last = NoCall

NextFields ==
    \/ fields_is_mit
    \/ fields_payee_name
    \/ fields_rfp_name
    \/ fields_country
    \/ fields_state
    \/ fields_citizen_alien
    \/ fields_mail_check
    \/ fields_hold_check
    \/ fields_mark_for_deletion
    \/ fields_rfp_number
    \/ fields_rfp_types

SpecFields == InitFields /\ [][NextFields]_vars

(***************************************************************************)
(* The address group: a caller holds a RequestRfpPage or ViewAndEditPage   *)
(* object and reads and writes its five address fields.  The object may be *)
(* one that was made on an earlier form than the one now on display.       *)
(* locals.title is the title the browser showed when the object was made.  *)
(***************************************************************************)
AddressTexts == { <<"a">> }

addr_country ==
    /\ page.cls \in {"RequestRfpPage", "ViewAndEditPage"}
    /\ \E val \in OptionalOf({<<"US">>, <<"France">>}, <<>>) :
         InvokeField(Call("country", -1, val), country(browser, page, val))

addr_address ==
    /\ page.cls \in {"RequestRfpPage", "ViewAndEditPage"}
    /\ \E val \in OptionalOf(AddressTexts, <<>>) :
         InvokeField(Call("address", -1, val), field_address(browser, page, val))

addr_city ==
    /\ page.cls \in {"RequestRfpPage", "ViewAndEditPage"}
    /\ \E val \in OptionalOf(AddressTexts, <<>>) :
         InvokeField(Call("city", -1, val), field_city(browser, page, val))

addr_state ==
    /\ page.cls \in {"RequestRfpPage", "ViewAndEditPage"}
    /\ \E val \in OptionalOf({<<"MA">>}, <<>>) :
         InvokeField(Call("state", -1, val), state(browser, page, val))

addr_postal_code ==
    /\ page.cls \in {"RequestRfpPage", "ViewAndEditPage"}
    /\ \E val \in OptionalOf(AddressTexts, <<>>) :
         InvokeField(Call("postal_code", -1, val), field_postal_code(browser, page, val))

\* The form the object was made on, the form on display, the object's class
AddressPages ==
    { [made |-> RequestRfpDom(p, FALSE), b |-> RequestRfpDom(q, FALSE),
       cls |-> "RequestRfpPage"] : p, q \in BOOLEAN }
    \cup { [made |-> ViewAndEditDom(RequestRfpDom(p, FALSE), NewRfp),
            b |-> ViewAndEditDom(RequestRfpDom(q, FALSE), NewRfp),
            cls |-> "ViewAndEditPage"] : p, q \in BOOLEAN }

InitAddress ==
    /\ \E f \in AddressPages :
         /\ browser = f.b
         /\ locals = [title |-> f.made.title]
         /\ page \in {o.ret : o \in IF f.cls = "RequestRfpPage"
                                    THEN RequestRfpPage(f.made, 1)
                                    ELSE ViewAndEditPage(f.made, 1)}
    /\ log = <<>>
    /\ calls = <<>>
    /\ pc = "fields"
    /\ exc = "none"
    /\ args = DefaultArgs
    /\ i = 0
    /\ r = 0
    /\ rfp_number = <<>>
    /\ nextId = 2
    /\ last = NoCall

NextAddress ==
    \/ addr_country
    \/ addr_address
    \/ addr_city
    \/ addr_state
    \/ addr_postal_code

SpecAddress == InitAddress /\ [][NextAddress]_vars

(***************************************************************************)
(* The writable fields of one request form: a caller holds a               *)
(* RequestRfpPage object for a non-MIT payee and sets its address, tax     *)
(* and mailing fields, one call at a time.                                 *)
(***************************************************************************)
\* The request form with its tax questions and mailing instructions
MailingDom(payment) ==
    LET form == RequestRfpDom(payment, FALSE)
    IN  [form EXCEPT
            !.text = form.text @@ EmptyBoxes({"#visaType", "#addressee", "#bldg-rm"}),
            !.sel = form.sel @@ ("#citizenship" :> 1)]

FormFields == {"country", "city", "citizen_alien", "visa", "citizenship",
               "mail_check", "hold_check", "addressee", "building_room", "phone"}

\* page.<field>(val)
FormCall(field, b, self, val) ==
    CASE field = "country" -> country(b, self, val)
      [] field = "city" -> field_city(b, self, val)
      [] field = "citizen_alien" -> citizen_alien(b, val)
      [] field = "visa" -> visa(b, val)
      [] field = "citizenship" -> citizenship(b, val)
      [] field = "mail_check" -> mail_check(b, val)
      [] field = "hold_check" -> hold_check(b, val)
      [] field = "addressee" -> addressee(b, val)
      [] field = "building_room" -> building_room(b, val)
      [] field = "phone" -> phone(b, val)

\* The values a caller sets a field to
FormValues(field) ==
    CASE field = "country" -> {<<"US">>, <<"France">>}
      [] field = "citizen_alien" -> {"Y", "N"}
      [] field = "citizenship" -> {<<"France">>}
      [] field \in {"mail_check", "hold_check"} -> BOOLEAN
      [] field = "building_room" -> {<<"E25">>}
      [] field = "phone" -> {<<"617">>}
      [] OTHER -> {<<"a">>}

\* The caller sets one field; the calls before it are not kept
InvokeForm(call, outs) ==
    /\ pc = "fields"
    /\ \E o \in outs :
         /\ browser' = o.b
         /\ exc' = o.exc
         /\ last' = Called(call, page, o)
    /\ UNCHANGED <<log, calls, pc, page, args, locals, i, r, rfp_number, nextId>>

form_set(field) ==
    /\ pc = "fields"
    /\ \E val \in FormValues(field) :
         InvokeForm(Call(field, -1, Some(val)), FormCall(field, browser, page, Some(val)))

form_country ==
    /\ page.cls = "RequestRfpPage"
    /\ form_set("country")

form_city ==
    /\ page.cls = "RequestRfpPage"
    /\ form_set("city")

form_citizen_alien ==
    /\ page.cls = "RequestRfpPage"
    /\ form_set("citizen_alien")

form_visa ==
    /\ page.cls = "RequestRfpPage"
    /\ form_set("visa")

form_citizenship ==
    /\ page.cls = "RequestRfpPage"
    /\ form_set("citizenship")

form_mail_check ==
    /\ page.cls = "RequestRfpPage"
    /\ form_set("mail_check")

form_hold_check ==
    /\ page.cls = "RequestRfpPage"
    /\ form_set("hold_check")

form_addressee ==
    /\ page.cls = "RequestRfpPage"
    /\ form_set("addressee")

form_building_room ==
    /\ page.cls = "RequestRfpPage"
    /\ form_set("building_room")

form_phone ==
    /\ page.cls = "RequestRfpPage"
    /\ form_set("phone")


InitForm ==
    /\ \E payment \in BOOLEAN :
         /\ browser = MailingDom(payment)
         /\ page \in {o.ret : o \in RequestRfpPage(MailingDom(payment), 1)}
    /\ log = <<>>
    /\ calls = <<>>
    /\ pc = "fields"
    /\ exc = "none"
    /\ args = DefaultArgs
    /\ locals = <<>>
    /\ i = 0
    /\ r = 0
    /\ rfp_number = <<>>
    /\ nextId = 2
    /\ last = NoCall

NextForm ==
    \/ form_country
    \/ form_city
    \/ form_citizen_alien
    \/ form_visa
    \/ form_citizenship
    \/ form_mail_check
    \/ form_hold_check
    \/ form_addressee
    \/ form_building_room
    \/ form_phone

SpecForm == InitForm /\ [][NextForm]_vars

(***************************************************************************)
(* ViewOnlyPage's getters, and view(browser, rfp_number): one action per   *)
(* statement.  The local `details` is locals.details.                      *)
(***************************************************************************)
Got(e, v) == [exc |-> e, val |-> v]

\* _try_datalist without the except clause's None
_try_datalist_plain(b, label) == Some(_datalist(b, label).val)

\* _try_datalist(label): the data cell, None if there is none
_try_datalist(b, label) ==
    IF _datalist(b, label).exc = "none" THEN Some(_datalist(b, label).val) ELSE None

ViewOnlyPage_inbox(b) == _try_datalist(b, "Inbox")

\* The getters view calls in a row (lines 151-165): the key it stores under,
\* the label or heading looked up, and whether a missing one gives None
DetailFields ==
    << [key |-> "payee", label |-> "Payee", try |-> FALSE],
       [key |-> "company_code", label |-> "Company Code", try |-> FALSE],
       [key |-> "rfp_name", label |-> "Name of RFP", try |-> FALSE],
       [key |-> "rfp_type", label |-> "Type of RFP", try |-> FALSE],
       [key |-> "payment_method", label |-> "Payment Method", try |-> FALSE],
       [key |-> "mailing_instructions", label |-> "Mailing Instructions", try |-> TRUE],
       [key |-> "addressee", label |-> "Name", try |-> TRUE],
       [key |-> "phone", label |-> "Phone", try |-> TRUE],
       [key |-> "address", label |-> "Address", try |-> TRUE],
       [key |-> "city", label |-> "City", try |-> TRUE],
       [key |-> "state", label |-> "State/Region", try |-> TRUE],
       [key |-> "postal_code", label |-> "Postal Code", try |-> TRUE],
       [key |-> "country", label |-> "Country", try |-> TRUE],
       [key |-> "tax_type", label |-> "Tax Entity Type", try |-> TRUE],
       [key |-> "ssn_tin", label |-> "SSN/TIN", try |-> TRUE] >>
ViewOnlyPage_detail(b, field) ==
    IF field.try THEN Got("none", _try_datalist(b, field.label))
    ELSE Got(_datalist(b, field.label).exc, Some(_datalist(b, field.label).val))

ViewOnlyPage_line_item_count(b) == Len(b.items)

\* _line_item_cells that always takes the first '.lineItem'
ViewOnlyPage__line_item_cells_first(b, li) ==
    IF li + 1 \in DOMAIN b.items THEN Got("none", b.items[1].cells)
    ELSE Got(IndexError, <<>>)

\* browsermulticss(".lineItem")[li], then its cells
ViewOnlyPage__line_item_cells(b, li) ==
    IF li + 1 \in DOMAIN b.items THEN Got("none", b.items[li + 1].cells)
    ELSE Got(IndexError, <<>>)
ViewOnlyPage_cell(b, li, n) ==
    LET cells == ViewOnlyPage__line_item_cells(b, li)
    IN  IF cells.exc # "none" THEN cells
        ELSE IF n + 1 \in DOMAIN cells.val THEN Got("none", cells.val[n + 1])
        ELSE Got(IndexError, <<>>)
ViewOnlyPage_date_of_service(b, li) == ViewOnlyPage_cell(b, li, 0)
ViewOnlyPage_gl_account(b, li) == ViewOnlyPage_cell(b, li, 1)
ViewOnlyPage_cost_object(b, li) == ViewOnlyPage_cell(b, li, 2)
ViewOnlyPage_amount(b, li) == ViewOnlyPage_cell(b, li, 3)
ViewOnlyPage_explanation(b, li) ==
    IF li + 1 \in DOMAIN b.items THEN Got("none", b.items[li + 1].explanation)
    ELSE Got(IndexError, <<>>)

ViewOnlyPage_office_note(b) == _try_datalist(b, "Note to Central Office")

\* history with slices in place of the three indexings: short rows come out
RECURSIVE history_loop_sliced(_, _, _)
history_loop_sliced(cells, k, result) ==
    IF k >= Len(cells) THEN Got("none", result)
    ELSE history_loop_sliced(cells, k + 3,
            Append(result, SubSeq(cells, k + 1, IF k + 3 <= Len(cells) THEN k + 3 ELSE Len(cells))))

\* for i in range(0, len(cells), 3): cells[i], cells[i+1], cells[i+2]
RECURSIVE history_loop(_, _, _)
history_loop(cells, k, result) ==
    IF k >= Len(cells) THEN Got("none", result)
    ELSE IF k + 2 >= Len(cells) THEN Got(IndexError, <<>>)
    ELSE history_loop(cells, k + 3,
                      Append(result, <<cells[k + 1], cells[k + 2], cells[k + 3]>>))

\* browsercss(".topHeadersTable")[-1]: the last such table is the history
ViewOnlyPage_history(b) ==
    IF b.kind # "ViewOnly" THEN Got(IndexError, <<>>)
    ELSE history_loop(b.history, 0, <<>>)

\* The RFP numbers view is asked for
ViewRfps == {RfpNumber(k) : k \in 1..5}

\* The statement at `from` reads the page through a getter
Read(from, call, got, to) ==
    /\ pc = from
    /\ calls' = Append(calls, call)
    /\ exc' = got.exc
    /\ last' = Called(call, page, Out(browser, <<>>, got.exc, NonePage))
    /\ pc' = IF got.exc = "none" THEN to ELSE "failed"
    /\ UNCHANGED <<browser, log, page, nextId>>

\* What page.<getter>() gives on the object held: a ViewOnlyPage has the getter
OnViewOnly(got) == IF page.cls = "ViewOnlyPage" THEN got ELSE Got(AttributeError, <<>>)

Store(key, value) == [locals EXCEPT !.details = (key :> value) @@ @]

view_start ==
    /\ Assign("view_start", Call("SearchPage", -1, NoArg),
              SearchPage(browser, nextId), "view_rfp_number")
    /\ UNCHANGED <<args, locals, i, r, rfp_number>>

view_rfp_number ==
    /\ Do("view_rfp_number", Call("rfp_number", -1, args.rfp_number),
          SearchPage_rfp_number(browser, args.rfp_number), "view_search")
    /\ UNCHANGED <<args, locals, i, r, rfp_number>>

view_search ==
    /\ Assign("view_search", Call("search", -1, NoArg),
              SearchPage_search(browser, page, nextId), "view_assert_single")
    /\ UNCHANGED <<args, locals, i, r, rfp_number>>

\* view_assert_single without the assertion
view_assert_single_skipped ==
    /\ Goto("view_assert_single", "view_details")
    /\ UNCHANGED <<args, locals, i, r, rfp_number>>

\* assert isinstance(page, ViewOnlyPage)
view_assert_single ==
    /\ IF page.cls = "ViewOnlyPage"
       THEN Goto("view_assert_single", "view_details")
       ELSE Raise("view_assert_single", AssertionError)
    /\ UNCHANGED <<args, locals, i, r, rfp_number>>

\* details = {}; details['rfp_number'] = rfp_number
view_details ==
    /\ Goto("view_details", "view_inbox")
    /\ locals' = [details |-> "rfp_number" :> args.rfp_number]
    /\ UNCHANGED <<args, i, r, rfp_number>>

view_inbox ==
    /\ LET got == OnViewOnly(Got("none", ViewOnlyPage_inbox(browser)))
       IN  /\ Read("view_inbox", Call("inbox", -1, NoArg), got, "view_assert_number")
           /\ locals' = IF got.exc = "none" THEN Store("inbox", got.val) ELSE locals
    /\ UNCHANGED <<args, i, r, rfp_number>>

\* assert page.rfp_number() == rfp_number
view_assert_number ==
    /\ LET read == OnViewOnly(ViewOnlyPage_rfp_number(browser))
           got == IF read.exc = "none" /\ read.val # args.rfp_number
                  THEN Got(AssertionError, <<>>) ELSE read
       IN  Read("view_assert_number", Call("rfp_number", -1, NoArg), got, "view_detail")
    /\ i' = 0
    /\ UNCHANGED <<args, locals, r, rfp_number>>

\* details[key] = page.<key>(), the next of the statements from 'payee' to
\* 'ssn_tin'
view_detail ==
    /\ i < Len(DetailFields)
    /\ LET field == DetailFields[i + 1]
           got == OnViewOnly(ViewOnlyPage_detail(browser, field))
       IN  /\ Read("view_detail", Call(field.key, -1, NoArg), got,
                   IF i + 1 < Len(DetailFields) THEN "view_detail" ELSE "view_line_items")
           /\ locals' = IF got.exc = "none" THEN Store(field.key, got.val) ELSE locals
    /\ i' = i + 1
    /\ UNCHANGED <<args, r, rfp_number>>

\* details['line_items'] = []; for i in range(page.line_item_count()): the
\* range is taken once, r holds its length
view_line_items ==
    /\ LET got == OnViewOnly(Got("none", ViewOnlyPage_line_item_count(browser)))
       IN  /\ Read("view_line_items", Call("line_item_count", -1, NoArg), got,
                   IF got.exc = "none" /\ got.val > 0
                   THEN "view_line_item" ELSE "view_office_note")
           /\ r' = IF got.exc = "none" THEN got.val ELSE r
    /\ locals' = Store("line_items", <<>>)
    /\ i' = 0
    /\ UNCHANGED <<args, rfp_number>>

\* The five getters of the loop body, in order, up to the first that raises
LineGetters(b, li) ==
    << [key |-> "date_of_service", got |-> ViewOnlyPage_date_of_service(b, li)],
       [key |-> "gl_account", got |-> ViewOnlyPage_gl_account(b, li)],
       [key |-> "cost_object", got |-> ViewOnlyPage_cost_object(b, li)],
       [key |-> "amount", got |-> ViewOnlyPage_amount(b, li)],
       [key |-> "explanation", got |-> ViewOnlyPage_explanation(b, li)] >>

\* The loop body: li = {}, the five reads of line item i, the append
view_line_item ==
    /\ pc = "view_line_item"
    /\ LET reads  == LineGetters(browser, i)
           failed == {k \in DOMAIN reads : reads[k].got.exc # "none"}
           made   == IF failed = {} THEN Len(reads)
                     ELSE CHOOSE k \in failed : \A m \in failed : k <= m
           li     == [date_of_service |-> reads[1].got.val,
                      gl_account |-> reads[2].got.val,
                      cost_object |-> reads[3].got.val,
                      amount |-> reads[4].got.val,
                      explanation |-> reads[5].got.val]
       IN  /\ calls' = calls \o [k \in 1..made |-> Call(reads[k].key, i, NoArg)]
           /\ exc' = IF failed = {} THEN "none" ELSE reads[made].got.exc
           /\ last' = Called(Call(reads[made].key, i, NoArg), page,
                             Out(browser, <<>>, reads[made].got.exc, NonePage))
           /\ pc' = IF failed # {} THEN "failed"
                    ELSE IF i + 1 < r THEN "view_line_item" ELSE "view_office_note"
           /\ locals' = IF failed # {} THEN locals
                        ELSE Store("line_items", Append(locals.details["line_items"], li))
    /\ i' = i + 1
    /\ UNCHANGED <<browser, log, page, nextId, args, r, rfp_number>>

view_office_note ==
    /\ LET got == OnViewOnly(Got("none", ViewOnlyPage_office_note(browser)))
       IN  /\ Read("view_office_note", Call("office_note", -1, NoArg), got, "view_history")
           /\ locals' = IF got.exc = "none" THEN Store("office_note", got.val) ELSE locals
    /\ UNCHANGED <<args, i, r, rfp_number>>

\* details['history'] = page.history(); return details
view_history ==
    /\ LET got == OnViewOnly(ViewOnlyPage_history(browser))
       IN  /\ Read("view_history", Call("history", -1, NoArg), got, "done")
           /\ locals' = IF got.exc = "none" THEN Store("history", got.val) ELSE locals
    /\ UNCHANGED <<args, i, r, rfp_number>>

InitView ==
    /\ browser = BlankDom
    /\ log = <<>>
    /\ calls = <<>>
    /\ pc = "view_start"
    /\ page = NonePage
    /\ exc = "none"
    /\ args \in [rfp_number : {<<n>> : n \in ViewRfps}]
    /\ locals = <<>>
    /\ i = 0
    /\ r = 0
    /\ rfp_number = <<>>
    /\ nextId = 1
    /\ last = NoCall

NextView ==
    \/ view_start
    \/ view_rfp_number
    \/ view_search
    \/ view_assert_single
    \/ view_details
    \/ view_inbox
    \/ view_assert_number
    \/ view_detail
    \/ view_line_items
    \/ view_line_item
    \/ view_office_note
    \/ view_history

SpecView == InitView /\ [][NextView]_vars

(***************************************************************************)
(* What the claims speak of.                                               *)
(***************************************************************************)
\* The invocations of `method` so far, in order
CallsOf(method) == SelectSeq(calls, LAMBDA c : c.method = method)
\* The driver calls of kind op so far on the elements locs, in order
DriverOps(op, locs) == SelectSeq(log, LAMBDA e : e.op = op /\ e.loc \in locs)
\* The last call clicked something
Clicked(call) == \E k \in DOMAIN call.ops : call.ops[k].op = "click"

\* C1: every action expected to move to another page checks errors() after its
\* UI action and, when there are errors, raises FailedTransitionError and
\* constructs no destination page object.
TransitionActions ==
    {"InboxPage.select", "InboxPage.clone", "SearchForPayeePage.results",
     "RequestRfpPage.change_payee", "RequestRfpPage.save",
     "ViewAndEditPage.attach_receipt", "ViewAndEditPage.send_to",
     "ViewOnlyPage.attach_receipt", "SendToPage.send", "SendToPage.return_to_rfp",
     "SearchPage.search", "SearchPage.results"}
C1_TransitionGuard ==
    (last.call.method \in TransitionActions /\ Clicked(last) /\ errors(browser) # <<>>)
        => (last.exc = FailedTransitionError /\ last.ret = NonePage)

\* The elements of the address group, as the driver is asked for them
AddressLocs ==
    UNION {{Idx("select#country", k), Idx("select#region", k), Idx("#address", k),
            Idx("#city", k), Idx("#zip", k)} : k \in {1, 2}}
RegionLocs == {Idx("select#region", k) : k \in {1, 2}}
AddressOps == SelectSeq(log, LAMBDA e : e.loc \in AddressLocs)
StateWrites == DriverOps("send_keys", RegionLocs)

\* create's address argument is a non-empty tuple of a length other than 4, 5
BadLength == Truthy(args.address) /\ Len(args.address.val) \notin {4, 5}

\* C2 as claimed: an address tuple whose length is neither 4 nor 5 makes create
\* fail with IndexError before any browser interaction.
C2_RejectedBeforeInteraction ==
    (~args.address.none /\ Len(args.address.val) \notin {4, 5})
        => /\ log = <<>>
           /\ pc \in {"start", "failed"}
           /\ pc = "failed" => exc = IndexError

\* C2, amended: a non-empty address tuple of a length other than 4 or 5 makes
\* create fail with IndexError at the address step, after the navigation, the
\* payee search and selection and the RFP name have been performed and before
\* any address field is touched; None and the empty tuple raise no length error.
C2_LengthError ==
    /\ exc = IndexError <=>
          (BadLength /\ pc = "failed" /\ last.call.method = "rfp_name" /\ last.exc = "none")
    /\ BadLength =>
          /\ AddressOps = <<>>
          /\ pc # "done"
          /\ \A k \in DOMAIN calls :
                calls[k].method \in {"CreateReimbursementPage", "is_mit", "payee_name",
                                     "search", "results", "rfp_name"}
    /\ exc = IndexError =>
          /\ log # <<>> /\ log[1] = Get(ReimbursementUrl)
          /\ log[Len(log)] = SendKeys("#rfpName", args.name)
          /\ \E k \in DOMAIN log : log[k] = Click(ResultLink(0))
C2_Witness == exc = IndexError /\ pc = "failed" /\ Len(log) > 1

\* C3: with a 4-element address create never writes the state/region field;
\* with a 5-element address it writes it once, from the tuple's third element.
C3_StateWrite ==
    LET address == args.address.val
        past == CallsOf("postal_code") # <<>> \/ pc = "done"
    IN  /\ Len(address) = 4 => (StateWrites = <<>> /\ CallsOf("state") = <<>>)
        /\ Len(address) = 5 =>
              /\ Len(StateWrites) <= 1 /\ Len(CallsOf("state")) <= 1
              /\ \A k \in DOMAIN calls :
                    calls[k].method = "state" => calls[k].arg = address[3]
              /\ past => (Len(StateWrites) = 1 /\ Len(CallsOf("state")) = 1)
        /\ Len(address) \notin {4, 5} => StateWrites = <<>>
C3_Witness ==
    /\ Len(args.address.val) = 5 /\ pc = "done"
    /\ CallsOf("state") = <<Call("state", -1, <<"MA">>)>>
    /\ StateWrites = <<SendKeys("select#region2", <<"Massachusetts", "\t">>)>>

\* The page on display has no State/Region dropdown for this page object
NoStateField == Idx("#region", page.index) \notin DOMAIN browser.sel

\* C4 as claimed: a state value given for a page that has no state field is
\* tolerated; create does not fail there.
C4_AbsenceTolerated ==
    (last.call.method = "state" /\ NoStateField) => pc # "failed"

\* C4, amended: what create tolerates is a missing state value (a 4-element
\* address): it then goes from the city straight to the postal code.  A state
\* value given for a page without a state field makes create fail at that step
\* with NoSuchElementException, the postal code unset.
C4_StateFieldRequired ==
    /\ (last.call.method = "state" /\ NoStateField) =>
          /\ pc = "failed" /\ exc = NoSuchElementException
          /\ CallsOf("postal_code") = <<>>
          /\ DriverOps("send_keys", {"#zip1", "#zip2"}) = <<>>
    /\ Len(args.address.val) = 4 =>
          /\ exc \notin {"NameError", "UnboundLocalError"}
          /\ \A k \in DOMAIN calls :
                (calls[k].method = "city" /\ k < Len(calls))
                    => calls[k + 1].method = "postal_code"
          /\ (last.call.method = "city" /\ last.exc = "none")
                => pc \in {"state", "postal_code"}
C4_Witness ==
    /\ last.call = Call("state", -1, <<"IDF">>) /\ NoStateField
    /\ pc = "failed" /\ exc = NoSuchElementException

\* C5: with no receipts create cancels the upload overlay exactly once and
\* never selects a file or attaches.
C5_CancelOnly ==
    args.receipts = <<>> =>
        /\ CallsOf("select_file") = <<>> /\ CallsOf("attach") = <<>>
        /\ DriverOps("send_keys", {"#upload"}) = <<>>
        /\ DriverOps("click", {DialogButton("Attach")}) = <<>>
        /\ Len(CallsOf("cancel")) <= 1
        /\ Len(DriverOps("click", {DialogButton("Cancel")})) <= Len(CallsOf("cancel"))
        /\ CallsOf("rfp_number") # <<>> =>
              /\ Len(CallsOf("cancel")) = 1
              /\ Len(DriverOps("click", {DialogButton("Cancel")})) = 1
        /\ pc = "done" => Len(CallsOf("rfp_number")) = 1
C5_Witness ==
    /\ args.receipts = <<>> /\ pc = "done"
    /\ CallsOf("cancel") = <<Call("cancel", -1, NoArg)>>

\* The five per-line-item setters, in the order create calls them, and the
\* text box each one writes
LineMethods ==
    <<"date_of_service", "gl_account", "cost_object", "amount", "explanation">>
LineLocs ==
    <<"#serviceDate", "#glAccount", "#costObject", "#amount", "#description">>
IsLineCall(c) == \E f \in DOMAIN LineMethods : c.method = LineMethods[f]

\* C6: with N line items create invokes add_line N-1 times (none for N = 0),
\* each time right before it populates line item i >= 1, and it populates the
\* five fields of line item i at row index i.
C6_AddLine ==
    LET N == Len(args.line_items)
        adds(k) == Len(SelectSeq(SubSeq(calls, 1, k), LAMBDA c : c.method = "add_line"))
    IN  /\ Len(CallsOf("add_line")) <= (IF N = 0 THEN 0 ELSE N - 1)
        /\ CallsOf("office_note") # <<>> =>
              /\ Len(CallsOf("add_line")) = (IF N = 0 THEN 0 ELSE N - 1)
              /\ \A li \in 0..(N - 1) : \A f \in DOMAIN LineMethods :
                    /\ Len(SelectSeq(calls, LAMBDA c : c.method = LineMethods[f] /\ c.li = li)) = 1
                    /\ Len(DriverOps("send_keys", {LineField(LineLocs[f], li)})) = 1
        /\ \A k \in DOMAIN calls :
              /\ (calls[k].method = "add_line" /\ k < Len(calls)) =>
                    calls[k + 1] = Call("date_of_service", adds(k), args.line_items[adds(k) + 1][1])
              /\ (calls[k].method = "date_of_service" /\ calls[k].li >= 1) =>
                    calls[k - 1].method = "add_line"
              /\ (calls[k].method = "date_of_service" /\ calls[k].li = 0) =>
                    calls[k - 1].method # "add_line"
              /\ \A f \in DOMAIN LineMethods :
                    calls[k].method = LineMethods[f] =>
                       /\ calls[k].li \in 0..(N - 1)
                       /\ calls[k].li = adds(k)
                       /\ calls[k].arg = args.line_items[calls[k].li + 1][f]
        /\ \A k \in DOMAIN log : \A f \in DOMAIN LineLocs : \A li \in 0..MaxItems + 1 :
              (log[k].op = "send_keys" /\ log[k].loc = LineField(LineLocs[f], li)) =>
                 (li < N /\ log[k].arg = args.line_items[li + 1][f])
C6_Witness ==
    /\ Len(args.line_items) >= 2 /\ pc = "done"
    /\ Len(CallsOf("add_line")) = Len(args.line_items) - 1
    /\ Len(SelectSeq(calls, IsLineCall)) = 5 * Len(args.line_items)

\* C7: create selects the payee only when the search found exactly one, and
\* then moves to the request form; when the payee search or the recipient
\* search finds none or several, an assertion fails and nothing further is
\* done on the browser.
C7_ExactlyOne ==
    /\ pc = "select" => Len(SearchForPayeePage_results(browser)) = 1
    /\ pc \in {"note", "send"} => Len(SendToPage_results(browser)) = 1
    /\ CallsOf("results") # <<>> =>
          \E k \in DOMAIN log : log[k] = Click(ResultLink(0))
    /\ (last.call.method = "results" /\ last.exc = "none") =>
          /\ page.cls = "RequestRfpPage" /\ page = last.ret
          /\ last.ops = <<Click(ResultLink(0))>>
    /\ (last.call.method = "results" /\ last.exc # "none") =>
          /\ last.exc = FailedTransitionError /\ errors(browser) # <<>>
    /\ exc = AssertionError =>
          /\ pc = "failed" /\ last.call.method = "search" /\ last.exc = "none"
          /\ log[Len(log)] \in {Click("#searchButton"), Click(".searchForRecipient")}
          /\ last.self.cls = "SearchForPayeePage" =>
                /\ Len(SearchForPayeePage_results(browser)) # 1
                /\ CallsOf("results") = <<>>
                /\ Len(CallsOf("search")) = 1
                /\ calls[Len(calls)].method = "search"
          /\ last.self.cls = "SendToPage" =>
                /\ Len(SendToPage_results(browser)) # 1
                /\ CallsOf("note") = <<>> /\ CallsOf("send") = <<>>
                /\ calls[Len(calls)].method = "search"
    /\ (pc = "failed" /\ last.call.method = "search" /\ last.exc = "none") =>
          exc = AssertionError
C7_Witness ==
    /\ exc = AssertionError /\ last.self.cls = "SendToPage"
    /\ Len(SendToPage_results(browser)) = 2
    /\ Len(CallsOf("results")) = 1

\* C8: constructing an AttachReceiptPage while the upload control is not
\* visible fails with FailedTransitionError and performs no browser action,
\* and an AttachReceiptPage object is only ever handed out over a visible
\* upload control.
C8_FailedTransition ==
    /\ last.call.method = "AttachReceiptPage" =>
          /\ last.ops = <<>>
          /\ browser.upload # "shown" => last.exc = FailedTransitionError
          /\ last.exc = "none" =>
                (browser.upload = "shown" /\ last.ret.cls = "AttachReceiptPage")
    /\ (last.exc = "none" /\ last.ret.cls = "AttachReceiptPage") =>
          browser.upload = "shown"

\* The part of C8 that the constructor does deliver: it never acts on the
\* browser, it fails when the control is hidden or missing, and no object
\* comes out of a failed check.
C8_NoObjectUnlessShown ==
    /\ last.call.method = "AttachReceiptPage" =>
          /\ last.ops = <<>>
          /\ browser.upload = "hidden" => last.exc = FailedTransitionError
          /\ browser.upload = "absent" => last.exc = NoSuchElementException
          /\ browser.upload = "shown" =>
                (last.exc = "none" /\ last.ret.cls = "AttachReceiptPage")
    /\ (last.exc = "none" /\ last.ret.cls = "AttachReceiptPage") =>
          browser.upload = "shown"

OverlayLabel(call) ==
    IF call.method = "AttachReceiptPage.cancel" THEN "Cancel" ELSE "Attach"
IsOverlayCall(call) ==
    call.method \in {"AttachReceiptPage.cancel", "AttachReceiptPage.attach"}

SetThenGet ==
    /\ pc = "fields" /\ calls # <<>> /\ last.exc = "none"
    /\ last.call.method # "rfp_types" /\ calls[1].method = last.call.method
    /\ ~calls[1].arg.none /\ last.call.arg.none
\* The value the read returned, and the value the write was given
ReadBack == IF last.call.method = "citizen_alien" THEN last.ret.val.val ELSE last.ret.val
WasSet == calls[1].arg.val
SelectFields == {"country", "state"}
OptionsOf(method) ==
    CASE method = "country" -> Options("#country1")
      [] method = "state" -> Options("#region1")

\* C11: a field's set followed at once by its get returns the value that was
\* set, for text boxes, checkboxes, radios and selects alike.
C11_RoundTrip == SetThenGet => ReadBack = WasSet

\* C11 as the code has it: text boxes, checkboxes and radios (the
\* boolean-mapped is_mit and mail_check among them) read back the value set;
\* a select reads back the stripped text of the chosen option, which is the
\* value set unless the option was named by its underlying value.
C11_RoundTripText ==
    SetThenGet =>
        IF last.call.method \in SelectFields
        THEN LET opts == OptionsOf(last.call.method)
                 byValue == {k \in DOMAIN opts : opts[k].value = WasSet}
             IN  /\ byValue = {} => ReadBack = WasSet
                 /\ byValue # {} => \E k \in byValue : ReadBack = Strip(opts[k].text)
        ELSE ReadBack = WasSet
C11_Witness ==
    /\ SetThenGet /\ last.call.method = "mail_check"
    /\ WasSet = TRUE /\ ReadBack = TRUE /\ browser.radio["rfpDocument.mailToMit"] = "false"

\* The select a field method drives on the page object self
FragmentOf(method, self) ==
    IF method = "country" THEN Idx("#country", self.index) ELSE Idx("#region", self.index)

\* C12: on every select of the page on display and for each of its options,
\* set by the option's value and set by its display text have the same
\* outcome (the same option selected, or the same failure), and a set that
\* returns leaves selected an option whose display text is the one requested.
C12_ValueOrText ==
    /\ \A fragment \in DOMAIN browser.sel :
          \A k \in DOMAIN Options(fragment) :
             LET opt == Options(fragment)[k]
                 byValue == _select(browser, fragment, Some(opt.value))
                 byText  == _select(browser, fragment, Some(Strip(opt.text)))
             IN  /\ byValue = byText
                 /\ \A o \in byValue \cup byText :
                       /\ o.exc \in {"none", AssertionError}
                       /\ o.exc = "none" =>
                             /\ _select_get(o.b, fragment) = Strip(opt.text)
                             /\ Options(fragment)[o.b.sel[fragment]].value = opt.value
                             /\ o.ops = <<SendKeys("select" \o fragment, Strip(opt.text) \o <<"\t">>)>>
    /\ (pc = "fields" /\ last.call.method \in SelectFields
           /\ ~last.call.arg.none /\ last.exc = "none") =>
          LET fragment == FragmentOf(last.call.method, last.self)
              chosen == Options(fragment)[browser.sel[fragment]]
          IN  \/ chosen.value = last.call.arg.val
              \/ Strip(chosen.text) = last.call.arg.val
C12_Witness ==
    /\ pc = "fields" /\ last.exc = "none"
    /\ calls # <<>> /\ calls[1].method = "country" /\ last.call.method = "country"
    /\ ~calls[1].arg.none /\ calls[1].arg.val = <<"France">>
    /\ ~last.call.arg.none /\ last.call.arg.val = <<"FR">>
    /\ Options("#country1")[browser.sel[FragmentOf("country", last.self)]].value = <<"FR">>
    /\ last.ops = <<SendKeys("select" \o FragmentOf("country", last.self), <<"France", "\t">>)>>

\* The getters of the RFP on display that view has called so far
FieldReads ==
    SelectSeq(calls, LAMBDA c : /\ c.method \notin {"SearchPage", "search"}
                                /\ ~(c.method = "rfp_number" /\ c.arg # NoArg))

C14_LineItems ==
    LET built == locals.details["line_items"]
        IsRow(entry, row) ==
            entry = [date_of_service |-> row.cells[1], gl_account |-> row.cells[2],
                     cost_object |-> row.cells[3], amount |-> row.cells[4],
                     explanation |-> row.explanation]
    IN  /\ pc = "view_line_item" =>
              (Len(built) = i /\ i < Len(browser.items) /\ r = Len(browser.items))
        /\ pc \in {"view_line_item", "view_office_note", "view_history", "done"} =>
              \A k \in DOMAIN built : k \in DOMAIN browser.items /\ IsRow(built[k], browser.items[k])
        /\ pc \in {"view_office_note", "view_history", "done"} =>
              /\ Len(built) = Len(browser.items)
              /\ Len(built) = ViewOnlyPage_line_item_count(browser)
              /\ Len(SelectSeq(calls, LAMBDA c : c.method = "explanation")) = Len(browser.items)
C14_Witness ==
    /\ pc = "done" /\ Len(browser.items) >= 2
    /\ Len(locals.details["line_items"]) = Len(browser.items)
    /\ locals.details["line_items"][2].gl_account = <<"gl", "1">>

\* What history() makes of the cells: rows of three in order if the cells
\* come in threes, IndexError (and no list at all) if they do not
ThreeAtATime(cells, result) ==
    IF Len(cells) % 3 = 0
    THEN /\ result.exc = "none"
         /\ Len(result.val) = Len(cells) \div 3
         /\ \A j \in DOMAIN result.val :
               /\ Len(result.val[j]) = 3
               /\ result.val[j] = <<cells[3 * j - 2], cells[3 * j - 1], cells[3 * j]>>
    ELSE result = Got(IndexError, <<>>)

\* C15: history() takes the cells of the history table three at a time into
\* (date, time, action) rows in order; every entry it returns has three
\* fields, whatever the number of cells.
C15_History ==
    /\ \A n \in 0..MaxCells :
          LET cells == [k \in 1..n |-> <<"cell", ToString(k - 1)>>]
          IN  ThreeAtATime(cells, history_loop(cells, 0, <<>>))
    /\ (pc \in {"done", "failed"} /\ last.call.method = "history") =>
          /\ ThreeAtATime(browser.history, Got(last.exc, IF last.exc = "none"
                                                          THEN locals.details["history"]
                                                          ELSE <<>>))
          /\ last.exc # "none" => "history" \notin DOMAIN locals.details
C15_Witness ==
    /\ pc = "done" /\ last.call.method = "history"
    /\ Len(browser.history) = 6
    /\ locals.details["history"] =
          << <<browser.history[1], browser.history[2], browser.history[3]>>,
             <<browser.history[4], browser.history[5], browser.history[6]>> >>

\* The calls of the receipt loop so far, in order
ReceiptCalls ==
    SelectSeq(calls, LAMBDA c : c.method \in {"attach_receipt", "select_file", "attach", "cancel"})
PastReceipts ==
    pc \in {"rfp_number", "send_to", "recipient_name", "send_search", "assert_recipients",
            "note", "send", "done"}

\* C16: with N >= 1 receipts create calls select_file(receipt) and then
\* attach() once per receipt in list order and never cancel; an iteration
\* after the first that finds a ViewAndEditPage first calls attach_receipt(),
\* N-1 times in a loop that runs to its end.
C16_ReceiptOrder ==
    LET N == Len(args.receipts)
        rc == ReceiptCalls
        count(m, k) == Len(SelectSeq(SubSeq(rc, 1, k), LAMBDA c : c.method = m))
    IN  N >= 1 =>
          /\ CallsOf("cancel") = <<>>
          /\ rc # <<>> => rc[1].method = "select_file"
          /\ \A k \in DOMAIN rc :
                /\ rc[k].method = "select_file" =>
                      /\ count("select_file", k) <= N
                      /\ rc[k].arg = args.receipts[count("select_file", k)]
                      /\ count("attach", k) = count("select_file", k) - 1
                      /\ k < Len(rc) => rc[k + 1].method = "attach"
                /\ rc[k].method = "attach" =>
                      /\ rc[k - 1].method = "select_file"
                      /\ k < Len(rc) => rc[k + 1].method \in {"attach_receipt", "select_file"}
                /\ rc[k].method = "attach_receipt" =>
                      /\ rc[k - 1].method = "attach"
                      /\ k < Len(rc) => rc[k + 1].method = "select_file"
          /\ pc = "attach_receipt" => (r >= 1 /\ page.cls = "ViewAndEditPage")
          /\ (pc = "select_file" /\ r >= 1) =>
                \/ last.call.method = "attach_receipt" /\ last.self.cls = "ViewAndEditPage"
                \/ last.call.method = "attach" /\ page.cls # "ViewAndEditPage"
          /\ PastReceipts =>
                /\ count("select_file", Len(rc)) = N /\ count("attach", Len(rc)) = N
                /\ count("attach_receipt", Len(rc)) = N - 1
                /\ Len(DriverOps("send_keys", {"#upload"})) = N
                /\ Len(DriverOps("click", {DialogButton("Attach")})) = N
C16_Witness ==
    /\ pc = "done" /\ Len(args.receipts) = 2
    /\ ReceiptCalls = << Call("select_file", -1, args.receipts[1]), Call("attach", -1, NoArg),
                         Call("attach_receipt", -1, NoArg),
                         Call("select_file", -1, args.receipts[2]), Call("attach", -1, NoArg) >>

\* Where the calls of `methods` stand in the sequence of calls
PositionsOf(methods) == {k \in DOMAIN calls : calls[k].method \in methods}

\* C17: create returns the RFP number it read from the page on display once
\* the overlay was closed: the one read comes after every attach and cancel
\* and before every send-to call, and no later step changes the value.
C17_ReturnedNumber ==
    [][ /\ pc = "rfp_number" =>
              /\ browser' = browser /\ page' = page
              /\ page.cls \in {"ViewAndEditPage", "ViewOnlyPage"} => browser.upload = "hidden"
              /\ pc' # "failed" =>
                    /\ page.cls \in {"ViewAndEditPage", "ViewOnlyPage"}
                    /\ rfp_number' = browser.data["RFP Number"]
                    /\ calls'[Len(calls')] = Call("rfp_number", -1, NoArg)
        /\ pc # "rfp_number" => rfp_number' = rfp_number
        /\ \A k \in PositionsOf({"rfp_number"})' :
              /\ PositionsOf({"rfp_number"})' = {k}
              /\ \A m \in PositionsOf({"save", "attach_receipt", "select_file",
                                       "attach", "cancel"})' : m < k
              /\ \A m \in PositionsOf({"send_to", "recipient_name", "note", "send"})' : k < m
        /\ (PositionsOf({"send_to", "recipient_name", "note", "send"})' # {}) =>
              PositionsOf({"rfp_number"})' # {}
        /\ pc' = "done" => (rfp_number' # <<>> /\ PositionsOf({"rfp_number"})' # {})
      ]_vars
C17_Witness ==
    /\ pc = "done" /\ Truthy(args.send_to) /\ rfp_number = <<NewRfp>>
    /\ CallsOf("send") # <<>> /\ browser.kind = "ViewOnly"
    /\ calls[Len(calls)].method = "send"

\* The methods that act on the page they are called on, and the button of each
InPlace ==
    ("SearchForPayeePage.search" :> "#searchButton") @@
    ("SendToPage.search" :> ".searchForRecipient") @@
    ("ViewAndEditPage.save" :> ".saveAction")

\* C18 as stated: every in-place method returns the very page object it was
\* called on (SearchPage.search when it does not find a single record).
C18_ReturnSelf ==
    /\ (last.call.method \in DOMAIN InPlace /\ last.exc = "none") => last.ret = last.self
    /\ (last.call.method = "SearchPage.search" /\ last.exc = "none" /\ browser.hits # 1) =>
          last.ret = last.self

\* C18: SearchForPayeePage.search, SendToPage.search and ViewAndEditPage.save
\* click their button and return None, and the caller's page object stays the
\* one they were called on; SearchPage.search that does not find a single
\* record is the only one that returns the object it was called on.
C18_InPlace ==
    /\ (last.call.method \in DOMAIN InPlace /\ last.exc = "none") =>
          /\ last.ret = NonePage
          /\ last.ops = <<Click(InPlace[last.call.method])>>
          /\ page = last.self /\ last.self # NonePage
    /\ (last.call.method = "SearchPage.search" /\ last.exc = "none" /\ browser.hits # 1) =>
          (last.ret = last.self /\ page = last.self /\ last.self # NonePage)
C18_Witness ==
    /\ last.call.method = "ViewAndEditPage.save" /\ last.exc = "none"
    /\ last.ret = NonePage /\ page = last.self /\ page.cls = "ViewAndEditPage"
    /\ browser.kind = "ViewAndEdit"

(***************************************************************************)
(* create and view together: the two workflows of the core, each from its  *)
(* own first statement.                                                     *)
(***************************************************************************)
InitCore == Init \/ InitView
\* Which of the two was called shows in the arguments it was given
NextCore ==
    \/ "rfp_number" \notin DOMAIN args /\ Next
    \/ "rfp_number" \in DOMAIN args /\ NextView
SpecCore == InitCore /\ [][NextCore]_vars

\* The statements of create and of view in program order
StepOrder ==
    << "start", "is_mit", "payee_name", "search", "assert_results", "select",
       "rfp_name", "address", "country", "address_line", "city", "state",
       "postal_code", "line_items", "add_line", "date_of_service", "gl_account",
       "cost_object", "amount", "explanation", "office_note", "save", "receipts",
       "attach_receipt", "select_file", "attach", "cancel", "rfp_number",
       "send_to", "recipient_name", "send_search", "assert_recipients", "note",
       "send",
       "view_start", "view_rfp_number", "view_search", "view_assert_single",
       "view_details", "view_inbox", "view_assert_number", "view_detail",
       "view_line_items", "view_line_item", "view_office_note", "view_history",
       "done", "failed" >>
Rank(p) == CHOOSE k \in DOMAIN StepOrder : StepOrder[k] = p

\* A step goes on to a later statement, or to the next round of its loop
Forward ==
    \/ Rank(pc') > Rank(pc)
    \/ pc = "explanation" /\ pc' = "line_items" /\ i' = i + 1
    \/ pc = "attach" /\ pc' = "receipts" /\ r' = r + 1
    \/ pc = "view_detail" /\ pc' = "view_detail" /\ i' = i + 1
    \/ pc = "view_line_item" /\ pc' = "view_line_item" /\ i' = i + 1

\* No driver call occurs twice in ops
NoRepeat(ops) == \A j, k \in DOMAIN ops : j # k => ops[j] # ops[k]

\* C19: create and view do not retry and let a failure through at once: a
\* step is taken only while nothing has failed, a step that fails ends the
\* workflow with its exception and with the driver calls it made before it
\* failed, no step makes the same driver call twice or runs again for the
\* same loop round, and the one failure that is absorbed is the unbound
\* `state` of a 4-element address in create.
C19_NoRetry ==
    [][ /\ pc \notin {"done", "failed"} /\ exc = "none"
        /\ (exc' # "none") <=> (pc' = "failed")
        /\ Forward
        /\ IF calls' # calls
           THEN /\ log' = log \o last'.ops
                /\ NoRepeat(last'.ops)
                /\ calls'[Len(calls')] = last'.call
                /\ exc' = last'.exc
           ELSE log' = log /\ browser' = browser
        /\ (pc = "state" /\ "state" \notin DOMAIN locals) <=>
              (pc = "state" /\ pc' = "postal_code" /\ calls' = calls)
        /\ (pc = "state" /\ "state" \in DOMAIN locals
              /\ Idx("#region", page.index) \notin DOMAIN browser.sel) =>
              (pc' = "failed" /\ exc' = NoSuchElementException)
      ]_vars
C19_Witness ==
    /\ pc = "failed" /\ exc = FailedTransitionError
    /\ last.call.method = "save" /\ last.ops = <<Click(".saveAction")>>
    /\ log[Len(log)] = Click(".saveAction")
    /\ CallsOf("postal_code") # <<>> /\ CallsOf("state") = <<>>

\* C20: SearchPage.rfp_types returns a 3-tuple (parked, posted, deleted) for
\* every combination of None/True/False arguments whose three checkbox
\* postconditions hold: such a call does not fail.
C20_ReturnsTuple ==
    (last.call.method = "rfp_types" /\ last.self.cls = "SearchPage"
        /\ last.exc # AssertionError) =>
        last.exc = "none"

\* The entry URL a constructor call navigates to, and the class it returns
EntryOf ==
    ("InboxPage" :> [url |-> InboxUrl, cls |-> "InboxPage"]) @@
    ("SearchPage" :> [url |-> SearchUrl, cls |-> "SearchPage"]) @@
    ("CreateReimbursementPage" :> [url |-> ReimbursementUrl, cls |-> "SearchForPayeePage"]) @@
    ("CreatePaymentPage" :> [url |-> PaymentUrl, cls |-> "SearchForPayeePage"])
NonEntry ==
    {"SearchForPayeePage", "RequestRfpPage", "ViewAndEditPage", "ViewOnlyPage",
     "AttachReceiptPage", "SendToPage"}
Gets(ops) == SelectSeq(ops, LAMBDA op : op.op = "get")

\* C21: constructing InboxPage or SearchPage navigates to the class's entry
\* URL exactly once; CreateReimbursementPage and CreatePaymentPage navigate to
\* theirs once and return a SearchForPayeePage; a call that constructs an
\* object of any other class navigates nowhere.
C21_EntryNavigation ==
    /\ last.call.method \in DOMAIN EntryOf =>
          /\ last.exc = "none"
          /\ last.ops = <<Get(EntryOf[last.call.method].url)>>
          /\ last.ret.cls = EntryOf[last.call.method].cls
          /\ browser = Load(EntryOf[last.call.method].url)
    /\ last.call.method \notin DOMAIN EntryOf => Gets(last.ops) = <<>>
    /\ (last.exc = "none" /\ last.ret.cls \in NonEntry
          /\ last.call.method \notin {"CreateReimbursementPage", "CreatePaymentPage"}) =>
          Gets(last.ops) = <<>>
C21_Witness ==
    /\ last.call.method = "SearchForPayeePage.results" /\ last.exc = "none"
    /\ last.ret.cls = "RequestRfpPage" /\ last.ops # <<>> /\ Gets(last.ops) = <<>>
    /\ last.self.cls = "SearchForPayeePage"

\* The fields of view's result that are read with the 'try' lookup
TryFields == {k \in DOMAIN DetailFields : DetailFields[k].key \in
                 {"addressee", "phone", "address", "city", "state", "postal_code",
                  "country", "tax_type", "ssn_tin"}}
TryKeys == {DetailFields[k].key : k \in TryFields} \cup {"inbox"}
LabelOf(key) ==
    IF key = "inbox" THEN "Inbox"
    ELSE DetailFields[CHOOSE k \in TryFields : DetailFields[k].key = key].label

\* C22: _try_datalist gives None exactly when the label is not on the page
\* and the value of _datalist when it is; _datalist raises
\* NoSuchElementException for a missing label; no 'try' getter fails a step of
\* view, and view's result holds None for every conditional field the page
\* does not show and the shown value for the others.
C22_TryLookup ==
    /\ \A l \in RequiredLabels \cup OptionalLabels :
          IF l \in DOMAIN browser.data
          THEN /\ _datalist(browser, l) = Got("none", browser.data[l])
               /\ _try_datalist(browser, l) = Some(_datalist(browser, l).val)
          ELSE /\ _datalist(browser, l).exc = NoSuchElementException
               /\ _try_datalist(browser, l) = None
    /\ (last.call.method \in TryKeys /\ last.self.cls = "ViewOnlyPage") => last.exc = "none"
    /\ "details" \in DOMAIN locals =>
          \A key \in TryKeys \cap DOMAIN locals.details :
             locals.details[key] =
                IF LabelOf(key) \in DOMAIN browser.data
                THEN Some(browser.data[LabelOf(key)]) ELSE None
    /\ pc = "done" => TryKeys \subseteq DOMAIN locals.details
C22_Witness ==
    /\ pc = "done" /\ args.rfp_number = <<RfpNumber(5)>>
    /\ locals.details["inbox"] = Some(<<"Inbox", RfpNumber(5)>>)
    /\ locals.details["phone"] = Some(<<"Phone", RfpNumber(5)>>)
    /\ locals.details["city"] = None /\ locals.details["ssn_tin"] = None
    /\ "City" \notin DOMAIN browser.data

\* The address calls create has made, and the ones it makes for an address
AddressCalls ==
    SelectSeq(calls, LAMBDA c : c.method \in {"country", "address", "city", "state",
                                              "postal_code"})
AddressPlan(address) ==
    IF Len(address) = 5
    THEN << Call("country", -1, address[5]), Call("address", -1, address[1]),
            Call("city", -1, address[2]), Call("state", -1, address[3]),
            Call("postal_code", -1, address[4]) >>
    ELSE << Call("country", -1, address[4]), Call("address", -1, address[1]),
            Call("city", -1, address[2]), Call("postal_code", -1, address[3]) >>
CountryLocs == {Idx("select#country", k) : k \in {1, 2}}
\* The text box an address call writes, for the page object held
BoxOf(method) ==
    CASE method = "address" -> Idx("#address", page.index)
      [] method = "city" -> Idx("#city", page.index)
      [] OTHER -> Idx("#zip", page.index)

\* C23: create makes its address calls in the order country, address, city,
\* state (when given), postal code; the country dropdown is written once and
\* before any other address element, and while the form is on display every
\* address text create wrote is still in its box.
C23_CountryFirst ==
    /\ (Truthy(args.address) /\ Len(args.address.val) \in {4, 5}) =>
          /\ Len(AddressCalls) <= Len(AddressPlan(args.address.val))
          /\ AddressCalls = SubSeq(AddressPlan(args.address.val), 1, Len(AddressCalls))
          /\ CallsOf("office_note") # <<>> => AddressCalls = AddressPlan(args.address.val)
    /\ AddressOps # <<>> => AddressOps[1].loc \in CountryLocs
    /\ Len(DriverOps("send_keys", CountryLocs)) <= 1
    /\ browser.kind = "RequestRfp" =>
          \A k \in DOMAIN calls :
             (calls[k].method \in {"address", "city", "postal_code"}
                /\ (k < Len(calls) \/ exc = "none")) =>
                browser.text[BoxOf(calls[k].method)] = calls[k].arg
C23_Witness ==
    /\ pc = "save" /\ Len(args.address.val) = 4 /\ args.address.val[4] = <<"FR">>
    /\ _select_get(browser, Idx("#country", page.index)) = <<"France">>
    /\ browser.text[Idx("#address", page.index)] = Street
    /\ browser.text[Idx("#zip", page.index)] = <<"75001">>
    /\ Len(AddressCalls) = 4

\* The element an address method works on, for an object of address group k
AddressElement(method, k) ==
    CASE method = "country" -> Idx("#country", k)
      [] method = "state" -> Idx("#region", k)
      [] method = "address" -> Idx("#address", k)
      [] method = "city" -> Idx("#city", k)
      [] OTHER -> Idx("#zip", k)
OnDisplay(b) == DOMAIN b.sel \cup DOMAIN b.text

\* C24: a RequestRfpPage or ViewAndEditPage object takes its address group
\* from the title at construction (1 if it contains "Payment", 2 otherwise)
\* and keeps it: country, address, city, state and postal_code all work on
\* the elements of that group whatever title is on display later, and fail
\* with NoSuchElementException where the page does not have them.
C24_IndexFixed ==
    LET index == IF Contains(locals.title, <<"Payment">>) THEN 1 ELSE 2
        elem == AddressElement(last.call.method, index)
    IN  /\ page.index = index /\ page.id = 1
        /\ last.call.method # "" =>
              /\ last.self = page
              /\ \A k \in DOMAIN last.ops :
                    last.ops[k].loc \in {elem, "select" \o elem}
              /\ (last.exc = "none" /\ ~last.call.arg.none) => last.ops # <<>>
              /\ last.exc = NoSuchElementException <=> elem \notin OnDisplay(browser)
C24_Witness ==
    /\ page.index = 1 /\ AddressIndex(browser) = 2
    /\ last.call = Call("city", -1, Some(<<"a">>))
    /\ last.exc = NoSuchElementException /\ "#city2" \in OnDisplay(browser)

\* The clicks a checkbox set makes: one if the box differs from val, else none
ClicksFor(b, selector, val) ==
    IF ~val.none /\ b.check[selector] # val.val THEN <<Click(selector)>> ELSE <<>>
\* One checkbox set, from the page before it to the call as recorded after it
CheckboxSet(selector, val, call, after) ==
    selector \in DOMAIN browser.check =>
       /\ call.ops = ClicksFor(browser, selector, val)
       /\ browser.check[selector] = val.val => (call.exc = "none" /\ after = browser)
       /\ call.exc = "none" <=> after.check[selector] = val.val
       /\ call.exc # "none" => call.exc = AssertionError
       /\ \A other \in DOMAIN browser.check \ {selector} :
             after.check[other] = browser.check[other]

\* C25: a checkbox set clicks the element only if its state differs from the
\* value asked for (no click for the current value, exactly one click for the
\* other) and returns only if the state then equals that value, failing the
\* assertion otherwise; so for _checkbox (hold_check, and each of rfp_types'
\* three boxes in turn) and for InboxPage.mark_for_deletion.
C25_CheckboxSet ==
    [][ LET call == last'
            arg  == call.call.arg
        IN  /\ (call.call.method = "hold_check" /\ ~arg.none) =>
                  CheckboxSet("#holdCheck", arg, call, browser')
            /\ (call.call.method = "mark_for_deletion" /\ ~arg.none) =>
                  CheckboxSet(MarkBox(arg.rfp), arg, call, browser')
            /\ call.call.method = "rfp_types" =>
                  /\ call.ops = ClicksFor(browser, "#parked", arg[1])
                                \o ClicksFor(browser, "#posted", arg[2])
                                \o ClicksFor(browser, "#deleted", arg[3])
                  /\ call.exc # AssertionError
                  /\ \A k \in 1..3 :
                        LET box == <<"#parked", "#posted", "#deleted">>[k]
                        IN  browser'.check[box] =
                               IF arg[k].none THEN browser.check[box] ELSE arg[k].val
      ]_vars
C25_Witness ==
    /\ last.call.method = "hold_check" /\ ~last.call.arg.none /\ last.call.arg.val = TRUE
    /\ last.ops = <<Click("#holdCheck")>> /\ last.exc = "none"
    /\ browser.check["#holdCheck"]
    /\ _radio_get(browser, "rfpDocument.mailToMit") = Some("true")

\* The phase of create that the k-th call belongs to
PhaseAt(k) ==
    LET m == calls[k].method
        read == \E j \in 1..(k - 1) : calls[j].method = "rfp_number"
    IN  CASE m \in {"CreateReimbursementPage", "is_mit", "payee_name", "results"} -> 1
          [] m = "search" -> IF read THEN 9 ELSE 1
          [] m = "rfp_name" -> 2
          [] m \in {"country", "address", "city", "state", "postal_code"} -> 3
          [] m \in Range(LineMethods) \cup {"add_line"} -> 4
          [] m = "office_note" -> 5
          [] m = "save" -> 6
          [] m \in {"attach_receipt", "select_file", "attach", "cancel"} -> 7
          [] m = "rfp_number" -> 8
          [] OTHER -> 9

\* C26: create's calls come phase by phase: payee search and selection, RFP
\* name, address, line items, office note, save, the overlay, the RFP number,
\* send-to.  save is called once, after the form fields and before any overlay
\* call; send is called at most once and only for a send-to descriptor; a run
\* that returns has gone through every phase its arguments ask for.
C26_PhaseOrder ==
    /\ \A j, k \in DOMAIN calls : j < k => PhaseAt(j) <= PhaseAt(k)
    /\ Len(CallsOf("save")) <= 1 /\ Len(CallsOf("send")) <= 1
    /\ Len(CallsOf("rfp_number")) <= 1 /\ Len(CallsOf("office_note")) <= 1
    /\ (\E k \in DOMAIN calls : PhaseAt(k) >= 7) => Len(CallsOf("save")) = 1
    /\ CallsOf("save") # <<>> =>
          /\ CallsOf("office_note") = <<Call("office_note", -1, args.office_note)>>
          /\ CallsOf("rfp_name") = <<Call("rfp_name", -1, args.name)>>
          /\ Len(CallsOf("explanation")) = Len(args.line_items)
          /\ Truthy(args.address) => CallsOf("postal_code") # <<>>
    /\ (\E k \in DOMAIN calls : PhaseAt(k) = 9) => Truthy(args.send_to)
    /\ pc = "done" =>
          /\ calls[1] = Call("CreateReimbursementPage", -1, NoArg)
          /\ Len(CallsOf("results")) = 1 /\ Len(CallsOf("save")) = 1
          /\ Len(CallsOf("rfp_number")) = 1
          /\ Len(CallsOf("attach")) + Len(CallsOf("cancel")) >= 1
          /\ Len(CallsOf("send")) = IF Truthy(args.send_to) THEN 1 ELSE 0
          /\ Len(DriverOps("click", {".saveAction"})) = 1
C26_Witness ==
    /\ pc = "done" /\ Truthy(args.send_to) /\ Truthy(args.address)
    /\ Len(args.line_items) = MaxItems /\ Len(args.receipts) = MaxReceipts
    /\ {PhaseAt(k) : k \in DOMAIN calls} = 1..9

\* C27: a transition action that fails with FailedTransitionError has clicked
\* once and done nothing else, has returned no page object, and has left the
\* object it was called on as it was, address index included; the page then
\* shows the errors, or (for an action that opens the upload overlay) the
\* overlay is not displayed.
C27_FailedTransitionFrame ==
    (last.call.method \in TransitionActions /\ last.exc = FailedTransitionError) =>
        /\ Len(last.ops) = 1 /\ last.ops[1].op = "click"
        /\ last.ret = NonePage
        /\ page = last.self /\ page # NonePage
        /\ exc = FailedTransitionError
        /\ \/ errors(browser) # <<>>
           \/ /\ last.call.method \in {"RequestRfpPage.save", "ViewAndEditPage.attach_receipt",
                                       "ViewOnlyPage.attach_receipt"}
              /\ browser.upload = "hidden"
C27_Witness ==
    /\ last.call.method = "ViewAndEditPage.send_to" /\ last.exc = FailedTransitionError
    /\ last.ops = <<Click(".sendToAction")>> /\ last.ret = NonePage
    /\ page = last.self /\ page.cls = "ViewAndEditPage" /\ page.index = 2
    /\ errors(browser) # <<>>

\* The methods create calls that each page class declares (ViewAndEditPage
\* inherits RequestRfpPage's)
Declares(cls) ==
    LET form == {"rfp_name", "country", "address", "city", "state", "postal_code",
                 "add_line", "date_of_service", "gl_account", "cost_object", "amount",
                 "explanation", "office_note", "save"}
    IN  CASE cls = "SearchForPayeePage" -> {"is_mit", "payee_name", "search", "results"}
          [] cls = "RequestRfpPage" -> form
          [] cls = "ViewAndEditPage" -> form \cup {"rfp_number", "attach_receipt", "send_to"}
          [] cls = "ViewOnlyPage" -> {"rfp_number", "attach_receipt"}
          [] cls = "AttachReceiptPage" -> {"select_file", "attach", "cancel"}
          [] cls = "SendToPage" -> {"recipient_name", "search", "results", "note", "send"}
          [] OTHER -> {"CreateReimbursementPage"}

\* C28: every method create invokes on the page object it holds is one that
\* the object's class declares, whichever page the overlay's button lands on;
\* on a ViewOnlyPage reached by an attach, create does not invoke select_file,
\* attach or send_to.
C28_DeclaredOnly ==
    /\ last.call.method # "" => last.call.method \in Declares(last.self.cls)
    /\ exc # AttributeError
    /\ ~(last.self.cls = "ViewOnlyPage" /\ last.call.method \in {"select_file", "attach", "send_to"})

\* C29: create given no address (None or an empty tuple) writes no address
\* field, raises no IndexError and goes from the RFP name straight to the
\* line items (to the office note when there are none).
C29_NoAddress ==
    ~Truthy(args.address) =>
        /\ AddressOps = <<>> /\ AddressCalls = <<>>
        /\ exc # IndexError /\ locals = <<>>
        /\ pc \notin {"country", "address_line", "city", "state", "postal_code"}
        /\ \A k \in DOMAIN calls :
              (calls[k].method = "rfp_name" /\ k < Len(calls)) =>
                 calls[k + 1] = IF args.line_items = <<>>
                                THEN Call("office_note", -1, args.office_note)
                                ELSE Call("date_of_service", 0, args.line_items[1][1])
C29_Witness ==
    /\ args.address = Some(<<>>) /\ pc = "done" /\ Len(args.line_items) >= 1
    /\ CallsOf("rfp_name") # <<>> /\ AddressOps = <<>>

\* What the getter of a field returns on the form b
ReadOf(b, self, field) ==
    {[exc |-> o.exc, ret |-> o.ret] : o \in FormCall(field, b, self, NoneOf(<<>>))}

\* The resets the field methods document: a new country re-renders the
\* address group, a new citizen_alien may clear visa and citizenship
DocumentedReset(set, read) ==
    \/ set = "country" /\ read \in {"address", "city", "state", "postal_code"}
    \/ set = "citizen_alien" /\ read \in {"visa", "citizenship"}

\* building_room and phone are one text box of the form
SameBox(set, read) == {set, read} = {"building_room", "phone"}

\* C30 as stated: setting one writable field of a request form leaves the
\* value read back from every other writable field unchanged, the documented
\* resets apart; building_room and phone are independent.
C30_Independent ==
    [][\A read \in FormFields \ {last'.call.method} :
          \/ DocumentedReset(last'.call.method, read)
          \/ ReadOf(browser', page, read) = ReadOf(browser, page, read)]_vars

\* C30 as the code has it: setting one writable field leaves the value read
\* back from every other writable field unchanged, apart from the documented
\* resets and from building_room and phone, which are one text box: a value
\* set through either is the value read back through both.
C30_Frame ==
    [][LET set == last'.call.method
       IN  /\ \A read \in FormFields \ {set} :
                \/ DocumentedReset(set, read)
                \/ SameBox(set, read)
                \/ ReadOf(browser', page, read) = ReadOf(browser, page, read)
           /\ set \in {"building_room", "phone"} /\ "#bldg-rm" \in DOMAIN browser.text
                => /\ last'.exc = "none"
                   /\ \A read \in {"building_room", "phone"} :
                        ReadOf(browser', page, read)
                            = {[exc |-> "none", ret |-> Value(last'.call.arg.val)]}]_vars
C30_Witness ==
    /\ last.call.method = "phone" /\ last.exc = "none"
    /\ ReadOf(browser, page, "building_room") = {[exc |-> "none", ret |-> Value(<<"617">>)]}
    /\ ReadOf(browser, page, "addressee") = {[exc |-> "none", ret |-> Value(<<"a">>)]}

\* The calls create made after page.send_to(), in order
SendToCalls(cs) ==
    LET at == {k \in DOMAIN cs : cs[k].method = "send_to"}
    IN  IF at = {} THEN <<>>
        ELSE SubSeq(cs, (CHOOSE k \in at : \A m \in at : k <= m) + 1, Len(cs))
Methods(cs) == [k \in DOMAIN cs |-> cs[k].method]
SendToPlan == <<"recipient_name", "search", "note", "send">>
SendToSteps == {"recipient_name", "send_search", "assert_recipients", "note", "send"}
ClickedLocs(ops) == {ops[k].loc : k \in {j \in DOMAIN ops : ops[j].op = "click"}}

\* C31: in create's send-to phase the calls on the SendTo page are, in order,
\* recipient_name(recipient), search(), the read of results() in the
\* assertion, note(note), send(); the results are read right after the search
\* and change nothing, the send call is made only where the list read held
\* exactly one result, results is never called with an index, and the only
\* elements clicked are the search button and the send button.
C31_SendToOrder ==
    [][ LET before == Methods(SendToCalls(calls))
            after  == SendToCalls(calls')
        IN  /\ IsPrefix(Methods(after), SendToPlan)
            /\ \A k \in DOMAIN after :
                  /\ after[k].method = "recipient_name" => after[k].arg = args.send_to.val[1]
                  /\ after[k].method = "note" => after[k].arg = args.send_to.val[2]
            /\ pc = "assert_recipients" =>
                  /\ before = <<"recipient_name", "search">>
                  /\ calls' = calls /\ browser' = browser /\ log' = log
                  /\ pc' = IF Len(SendToPage_results(browser)) = 1 THEN "note" ELSE "failed"
            /\ pc = "send" =>
                  /\ before = <<"recipient_name", "search", "note">>
                  /\ Len(SendToPage_results(browser)) = 1
                  /\ Methods(after) = SendToPlan
            /\ (pc \in SendToSteps /\ calls' # calls) =>
                  ClickedLocs(last'.ops) \subseteq {".searchForRecipient", ".sendToAction"}
      ]_vars
C31_Witness ==
    /\ pc = "done" /\ exc = "none"
    /\ Methods(SendToCalls(calls)) = SendToPlan
    /\ page.cls = "ViewOnlyPage"

\* The driver calls of view that change something, in order
ViewPlan ==
    <<Get(SearchUrl), Clear("#rfpNumber"), SendKeys("#rfpNumber", args.rfp_number),
      Click("#searchButton")>>
SearchSteps == {"view_start", "view_rfp_number", "view_search"}

\* C32: the state-changing driver calls of view are the navigation to the
\* search entry URL, one write of the RFP-number search box (cleared, then
\* typed) and one click on the search button, in that order; every step
\* after the search issues no such call and leaves the page, the RFP it
\* displays included, as it was.
C32_ReadOnly ==
    [][ /\ IsPrefix(log', ViewPlan)
        /\ pc \notin SearchSteps =>
              /\ browser' = browser /\ log' = log /\ page' = page
              /\ calls' # calls => last'.ops = <<>>
        /\ pc' \notin SearchSteps \cup {"failed"} => log' = ViewPlan
      ]_vars
C32_Witness ==
    /\ pc = "done" /\ exc = "none" /\ log = ViewPlan
    /\ browser.kind = "ViewOnly" /\ Len(browser.history) = 6
    /\ "history" \in DOMAIN locals.details /\ Len(locals.details["line_items"]) >= 1

====
